---- MODULE Spec2Model ----
(***************************************************************************)
(* A model of the cluster controller of                                    *)
(* src/fdbserver/ClusterController.actor.cpp.  One specification per       *)
(* subsystem; the subsystems share the module's variables and each         *)
(* specification leaves the other subsystems' variables alone.             *)
(*                                                                         *)
(*   SpecFD       failureDetectionServer (requests, periodic eviction)     *)
(*   SpecTLog     getWorkersForTlogsAcrossDatacenters on populations       *)
(*   SpecFind     findWorkersForConfiguration on drawn populations         *)
(*   SpecStorage  getStorageWorker on drawn populations and requests       *)
(*   SpecDB       clusterWatchDatabase, clusterRegisterMaster and the      *)
(*                better-master check over a fixed registry                *)
(*   SpecWatchdog SpecDB with the clock running                            *)
(*   SpecPoll     clusterGetServerInfo, the long poll of ServerDBInfo      *)
(*   SpecLongPoll clusterGetServerInfo and clusterOpenDatabase together    *)
(*   SpecReq      the requests held and their reply promises               *)
(*   SpecExpire   outstandingStorageRequests and their deadlines           *)
(*   SpecRecruit  clusterRecruitFromConfiguration and its retries          *)
(*   SpecBetter   the better-master check as workers register              *)
(*   SpecReg      registerWorker, workerAvailabilityWatch, the process     *)
(*                classes and the worker-list journal                      *)
(*   SpecWorkerList  UpdateWorkerList and the keys under workerListKeys    *)
(*   SpecCompare  InDatacenterFitness and AcrossDatacenterFitness          *)
(*   SpecClientInfo  the writers of the clientInfo cell                    *)
(*   SpecBetterCall  betterMasterExists on drawn registries                *)
(*   SpecRole     getMasterWorker and the two role getters of a datacenter *)
(*                                                                         *)
(* Not modelled: the coordination and leader election around               *)
(* clusterController, the contents of the status document, the             *)
(* database transactions of monitorProcessClasses,                         *)
(* monitorClientTxnInfoConfigs and UpdateWorkerList beyond what they       *)
(* read and write and where they retry, and fdbrpc.                        *)
(***************************************************************************)
EXTENDS Integers, Sequences, FiniteSets, TLC

(***************************************************************************)
(* Bounds of the model.                                                    *)
(***************************************************************************)
NumAddr == 3
MaxTime == 4
MaxVersion == 4
NumProc == 3          \* processes that can register as workers
NumZones == 2         \* zoneIds of the drawn populations
MaxRepl == 2          \* largest tLogReplicationFactor and policy width drawn
MaxDesired == 3       \* largest getDesiredLogs() drawn
MaxUID == 5           \* ids g_random->randomUniqueID() hands out to the published infos
MaxLifetime == 2      \* successful master recruitments
MaxRegCount == 2      \* largest registrationCount a master sends
NumPolls == 1         \* GetServerDBInfo subscribers
MaxReq == 3           \* requests the controller holds at one time
MaxReqTime == 3        \* the time the request specification runs to
MaxReboots == 2       \* rebootAndCheck actors of one process sleeping at one time

(***************************************************************************)
(* Knobs (tunables), in ticks of one CLIENT_REQUEST_INTERVAL.              *)
(***************************************************************************)
CLIENT_REQUEST_INTERVAL == 1
FAILURE_MIN_DELAY == 1
FAILURE_MAX_DELAY == 3
EXPECTED_MASTER_FITNESS == 1            \* GoodFit
EXPECTED_TLOG_FITNESS == 1
EXPECTED_PROXY_FITNESS == 1
EXPECTED_RESOLVER_FITNESS == 1
RECRUITMENT_TIMEOUT == 1
WAIT_FOR_GOOD_RECRUITMENT_DELAY == 1

VARIABLES
  now,              \* now(): the clock every actor reads
  fdRunning,        \* the failureDetectionServer actor is alive (no ASSERT has thrown)
  currentVersion,   \* failureDetectionServer: currentVersion
  currentStatus,    \* failureDetectionServer: currentStatus, address -> FailureStatusInfo
  statusHistory,    \* failureDetectionServer: statusHistory, deque of SystemFailureStatus
  periodically,     \* failureDetectionServer: the time at which `periodically` is ready
  fdReplied,        \* what the request handled last was answered with
  statusAt,         \* history variable: version -> the addresses that were up at that version
  id_worker,        \* ClusterControllerData::id_worker, processId -> WorkerInfo
  available,        \* IFailureMonitor: the processes whose storage endpoint is available
  conf,             \* the DatabaseConfiguration a placement is computed for
  tlogResult,       \* what getWorkersForTlogsAcrossDatacenters returned or threw
  findResult,       \* how the calls of findWorkersForConfiguration ended, the last one and
                    \* whether one threw operation_failed
  storageResult,    \* the last call of getStorageWorker: its request and what it returned
  placeCall,        \* the last call of a comparator or of a role getter made on its own:
                    \* its arguments and what it returned
  serverInfo,       \* DBInfo::serverInfo, the value of the AsyncVar<ServerDBInfo>
  clientInfo,       \* DBInfo::clientInfo, the value of the AsyncVar<ClientDBInfo>
  masterRegistrationCount,   \* DBInfo::masterRegistrationCount
  config,           \* DBInfo::config
  forceMasterFailure,        \* DBInfo::forceMasterFailure: the promise is set
  masterProcessId,  \* ClusterControllerData::masterProcessId, 0 when absent
  betterMasterExistsChecker, \* ClusterControllerData::betterMasterExistsChecker
  wdState,          \* clusterWatchDatabase: where the actor waits
  nextUID,          \* the next id g_random->randomUniqueID() returns
  dbEvent,          \* the database operation handled last and how it went
  txnInfoRead,      \* monitorClientTxnInfoConfigs: rateVal and limitVal as its transaction
                    \* read them last, <<>> before the first read
  waitFailureClient,\* clusterWatchDatabase: the reaction time the waitFailureClient of
                    \* line 810 was started with, "none" while the master is not watched
  polls,            \* clusterGetServerInfo: per subscriber, the request in flight and
                    \* what the subscriber has been sent
  ccRunning,        \* clusterControllerCore has not ended with an error
  unanswered,       \* the reply promises let go of other than after one value or error
  outstandingRecruitmentRequests,  \* ClusterControllerData::outstandingRecruitmentRequests
  outstandingStorageRequests,      \* ClusterControllerData::outstandingStorageRequests
  storageReplies,   \* the replies the step just taken has sent to the requests of
                    \* outstandingStorageRequests
  recruitRetry,     \* clusterRecruitFromConfiguration actors waiting at line 1201
  opens,            \* clusterOpenDatabase: per client, the request waiting at line 892
  statusState,      \* statusServer: where the actor waits
  requests,         \* statusServer: the StatusRequests queued in its stream
  requests_batch,   \* statusServer: requests_batch
  statusCall,       \* history variable: the number of calls of clusterGetStatus that
                    \* statusServer has started, modulo 2
  rebooting,        \* processId -> the rebootAndCheck actors sleeping at line 984
  id_class,         \* ClusterControllerData::id_class, processId -> ProcessClass
  gotProcessClasses,\* ClusterControllerData::gotProcessClasses
  delta,            \* UpdateWorkerList::delta, processId -> ProcessData or tombstone
  updaterState,     \* UpdateWorkerList::update: where the actor waits
  updaterDelta,     \* UpdateWorkerList::update: its local `delta`, the batch it writes
  workerList        \* the processIds that have a key under workerListKeys

fdVars == <<fdRunning, currentVersion, currentStatus, statusHistory, periodically,
            fdReplied, statusAt>>
updVars == <<updaterState, updaterDelta, workerList>>
regVars == <<id_worker, available, rebooting, id_class, gotProcessClasses, delta, updVars>>
queueVars == <<outstandingRecruitmentRequests, outstandingStorageRequests, recruitRetry>>
statusVars == <<statusState, requests, requests_batch, statusCall>>
reqVars == <<ccRunning, unanswered, queueVars, opens, statusVars>>
placeVars == <<conf, tlogResult, findResult, storageResult, placeCall>>
dbVars == <<serverInfo, clientInfo, masterRegistrationCount, config, forceMasterFailure,
            masterProcessId, betterMasterExistsChecker, wdState, nextUID, dbEvent,
            txnInfoRead, waitFailureClient>>
vars == <<now, fdVars, regVars, placeVars, dbVars, polls, reqVars, storageReplies>>

\* A step that sends nothing to the requests of outstandingStorageRequests
NoStorageReplies == storageReplies' = {}

(***************************************************************************)
(* Small helpers.                                                          *)
(***************************************************************************)
Max(a, b) == IF a >= b THEN a ELSE b
Min(a, b) == IF a <= b THEN a ELSE b

RECURSIVE SetToSeq(_)
\* The elements of a finite set of integers in increasing order (std::map order).
SetToSeq(S) ==
  IF S = {} THEN <<>>
  ELSE LET m == CHOOSE x \in S : \A y \in S : x <= y
       IN <<m>> \o SetToSeq(S \ {m})

(***************************************************************************)
(* Process classes and fitness (fdbrpc/Locality.h).                        *)
(***************************************************************************)
BestFit == 0
GoodFit == 1
UnsetFit == 2
WorstFit == 3
NeverAssign == 4

\* ProcessClass: (type, source)
ProcessClass(type, source) == [type |-> type, source |-> source]
UnsetClass == ProcessClass("unset", "CommandLine")

\* ProcessClass::machineClassFitness( role ): the fixed class-by-role table.
machineClassFitness(class, role) ==
  CASE class.type = "tester" -> NeverAssign
    [] class.type = "unset" -> UnsetFit
    [] role = "Storage" ->
         CASE class.type = "storage" -> BestFit
           [] class.type \in {"transaction", "log"} -> WorstFit
           [] OTHER -> NeverAssign
    [] role = "TLog" ->
         CASE class.type = "log" -> BestFit
           [] class.type = "transaction" -> GoodFit
           [] class.type = "storage" -> WorstFit
           [] OTHER -> NeverAssign
    [] role = "Master" ->
         CASE class.type = "master" -> BestFit
           [] class.type = "stateless" -> GoodFit
           [] OTHER -> WorstFit
    [] role = "Proxy" ->
         CASE class.type = "proxy" -> BestFit
           [] class.type = "stateless" -> GoodFit
           [] OTHER -> WorstFit
    [] OTHER ->          \* Resolver
         CASE class.type = "resolution" -> BestFit
           [] class.type = "stateless" -> GoodFit
           [] OTHER -> WorstFit

(***************************************************************************)
(* The worker registry.                                                    *)
(***************************************************************************)
ProcId == 1..NumProc
Zone == 1..NumZones

\* WorkerInterface: its id, and the locality and address of the process it belongs to.
WorkerInterface(id, processId, zoneId, dcId) ==
  [id |-> id, processId |-> processId, zoneId |-> zoneId, dcId |-> dcId, address |-> processId]

\* WorkerInfo( watcher, reply, gen, interf, initialClass, processClass ), reboots(0);
\* the watcher is workerAvailabilityWatch( interf, ... ), held as the id of the interface
\* whose failure it waits for
WorkerInfo(reply, gen, interf, initialClass, processClass) ==
  [watcher |-> interf.id, reply |-> reply, gen |-> gen, reboots |-> 0, interf |-> interf,
   initialClass |-> initialClass, processClass |-> processClass]

\* ProcessData( worker.locality, startingClass, worker.address() )
ProcessData(processId, startingClass) == [processId |-> processId, class |-> startingClass]

\* Optional<ProcessData>(): the tombstone of a process
Tombstone == [processId |-> 0, class |-> ProcessClass("none", "none")]

\* UpdateWorkerList::set( processID, data ): delta[processID] = data
SetDelta(d, processId, data) ==
  [p \in DOMAIN d \cup {processId} |-> IF p = processId THEN data ELSE d[p]]

\* UpdateWorkerList::update has not committed its first transaction
UpdaterIdle == updaterState = "clear" /\ updaterDelta = <<>>

\* No class is loaded from the database, no rebootAndCheck runs, nothing is stored
\* under workerListKeys.
ClassesIdle ==
  /\ rebooting = [p \in ProcId |-> 0]
  /\ id_class = <<>>
  /\ gotProcessClasses = FALSE
  /\ delta = <<>>
  /\ UpdaterIdle
  /\ workerList = {}

\* No worker is registered.
RegIdle == id_worker = <<>> /\ available = {} /\ ClassesIdle

\* bool workerAvailable( WorkerInfo const& worker, bool checkStable ); `available` holds
\* the addresses whose endpoints the failure monitor reports available
workerAvailable(worker, checkStable) ==
  worker.interf.address \in available /\ (~checkStable \/ worker.reboots < 2)

\* DatabaseConfiguration: the fields recruitment reads.  tLogPolicy is the number of
\* distinct zones the policy asks for, 0 for an unset policy.
DatabaseConfiguration(rf, policy, logs, proxies, resolvers, excluded) ==
  [tLogReplicationFactor |-> rf, tLogPolicy |-> policy, desiredLogs |-> logs,
   desiredProxies |-> proxies, desiredResolvers |-> resolvers, excluded |-> excluded]

\* DatabaseConfiguration(): nothing is configured
DefaultConfiguration == DatabaseConfiguration(0, 0, 1, 1, 1, {})

isExcludedServer(c, address) == address \in c.excluded

(***************************************************************************)
(* Recruitment: one role inside a datacenter.                              *)
(***************************************************************************)
\* id_used[ processId ]: a std::map, absent keys read as 0
NoneUsed == [p \in ProcId |-> 0]

Use(id_used, p) == IF p \in ProcId THEN [id_used EXCEPT ![p] = @ + 1] ELSE id_used

\* Lines 362-364: id_used[result.first.locality.processId()]++
UseWorkers(id_used, workers) ==
  [p \in ProcId |-> IF p \in workers THEN id_used[p] + 1 ELSE id_used[p]]

\* The key of fitness_workers: std::pair<Fitness, int>, ordered lexicographically
KeyLess(f1, u1, f2, u2) == f1 < f2 \/ (f1 = f2 /\ u1 < u2)

\* Mutant of FirstGroup: any candidate will do
FirstGroupAny(cands, role, id_used) == cands

\* The first entry of fitness_workers: the candidates with the least (fitness, used)
FirstGroup(cands, role, id_used) ==
  LET fit(p) == machineClassFitness(id_worker[p].processClass, role)
  IN {p \in cands : \A q \in cands : ~KeyLess(fit(q), id_used[q], fit(p), id_used[p])}

\* Lines 404-409 and 422-427: the candidates inside (or outside) the datacenter
RoleCandidates(dcId, inside, role, c, checkStable) ==
  {p \in DOMAIN id_worker :
     /\ workerAvailable(id_worker[p], checkStable)
     /\ ~isExcludedServer(c, id_worker[p].interf.address)
     /\ machineClassFitness(id_worker[p].processClass, role) # NeverAssign
     /\ (id_worker[p].interf.dcId = dcId) = inside}

\* WorkerFitnessInfo( worker, fitness, used ) and the id_used the call leaves
WorkerFitnessInfo(p, role, id_used) ==
  [worker |-> p, fitness |-> machineClassFitness(id_worker[p].processClass, role),
   used |-> id_used[p], id_used |-> Use(id_used, p)]

\* getWorkerForRoleInDatacenter( dcId, role, conf, id_used, checkStable ): the results it
\* can return (the shuffle picks any worker of the first group); none when it throws
\* no_more_servers.
getWorkerForRoleInDatacenter(dcId, role, c, id_used, checkStable) ==
  LET inside == RoleCandidates(dcId, TRUE, role, c, checkStable)
      outside == RoleCandidates(dcId, FALSE, role, c, checkStable)
      from == IF inside # {} THEN inside ELSE outside
  IN {WorkerFitnessInfo(p, role, id_used) : p \in FirstGroup(from, role, id_used)}

\* Mutant of TakeWorkers: every candidate is taken, whatever the amount
TakeWorkersAll(cands, role, amount, id_used) == {cands}

RECURSIVE TakeWorkers(_, _, _, _)
\* Lines 454-465: walk fitness_workers in key order, each group shuffled, until
\* `amount` workers are taken: the sets of workers that can result.
TakeWorkers(cands, role, amount, id_used) ==
  IF amount <= 0 \/ cands = {} THEN {{}}
  ELSE LET g == FirstGroup(cands, role, id_used)
       IN IF Cardinality(g) >= amount
            THEN {S \in SUBSET g : Cardinality(S) = amount}
            ELSE {g \cup S : S \in TakeWorkers(cands \ g, role, amount - Cardinality(g), id_used)}

\* getWorkersForRoleInDatacenter( dcId, role, amount, conf, id_used, minWorker,
\* checkStable ): the results it can return with the id_used each leaves.
getWorkersForRoleInDatacenter(dcId, role, amount, c, id_used, minWorker, checkStable) ==
  LET fit(p) == machineClassFitness(id_worker[p].processClass, role)
      cands == {p \in DOMAIN id_worker :
                  /\ workerAvailable(id_worker[p], checkStable)
                  /\ ~isExcludedServer(c, id_worker[p].interf.address)
                  /\ id_worker[p].interf.id # id_worker[minWorker.worker].interf.id
                  /\ \/ fit(p) < minWorker.fitness
                     \/ (fit(p) = minWorker.fitness /\ id_used[p] <= minWorker.used)
                  /\ id_worker[p].interf.dcId = dcId}
  IN {[workers |-> S, id_used |-> UseWorkers(id_used, S)] :
        S \in TakeWorkers(cands, role, amount, id_used)}

\* RoleFitness: the maximum over the workers' fitness for the role, from BestFit
RoleFitness(classes, role) ==
  LET fits == {machineClassFitness(cl, role) : cl \in classes} \cup {BestFit}
  IN CHOOSE f \in fits : \A g \in fits : g <= f

InDatacenterFitness(proxyFit, resolverFit, proxyCount, resolverCount) ==
  [proxyFit |-> proxyFit, resolverFit |-> resolverFit,
   proxyCount |-> proxyCount, resolverCount |-> resolverCount]

\* InDatacenterFitness(): the counts are left uninitialized; no comparison the model
\* makes reads them, for a computed fitness never is NeverAssign.
DefaultInDatacenterFitness == InDatacenterFitness(NeverAssign, NeverAssign, 0, 0)

\* InDatacenterFitness::operator< without its comparison of the smaller of the two fits
InFitLessByMaxOnly(l, r) ==
  LET lmax == Max(l.resolverFit, l.proxyFit)
      rmax == Max(r.resolverFit, r.proxyFit)
  IN IF lmax # rmax THEN lmax < rmax
     ELSE IF l.proxyCount # r.proxyCount THEN l.proxyCount > r.proxyCount
     ELSE l.resolverCount > r.resolverCount

\* InDatacenterFitness::operator<
InFitLess(l, r) ==
  LET lmax == Max(l.resolverFit, l.proxyFit)
      lmin == Min(l.resolverFit, l.proxyFit)
      rmax == Max(r.resolverFit, r.proxyFit)
      rmin == Min(r.resolverFit, r.proxyFit)
  IN IF lmax # rmax THEN lmax < rmax
     ELSE IF lmin # rmin THEN lmin < rmin
     ELSE IF l.proxyCount # r.proxyCount THEN l.proxyCount > r.proxyCount
     ELSE l.resolverCount > r.resolverCount

AcrossDatacenterFitness(tlogFit, tlogCount) == [tlogFit |-> tlogFit, tlogCount |-> tlogCount]

\* InDatacenterFitness::operator==
InFitEqual(l, r) ==
  /\ l.proxyFit = r.proxyFit
  /\ l.resolverFit = r.resolverFit
  /\ l.proxyCount = r.proxyCount
  /\ l.resolverCount = r.resolverCount
\* AcrossDatacenterFitness::operator<
AcrossFitLess(l, r) ==
  IF l.tlogFit # r.tlogFit THEN l.tlogFit < r.tlogFit ELSE l.tlogCount > r.tlogCount

\* AcrossDatacenterFitness::operator==
AcrossFitEqual(l, r) == l.tlogFit = r.tlogFit /\ l.tlogCount = r.tlogCount

\* getDatacenters( conf, checkStable )
getDatacenters(c, checkStable) ==
  {id_worker[p].interf.dcId : p \in {q \in DOMAIN id_worker :
      workerAvailable(id_worker[q], checkStable)
        /\ ~isExcludedServer(c, id_worker[q].interf.address)}}

\* Lines 689-698 (and 584-594): the proxies and resolvers of one datacenter, given the
\* id_used the tlogs left: the fitness values the placement can come out with; none
\* when a first pick throws no_more_servers.
DatacenterFitness(dcId, c, id_used, firstStable, restStable) ==
  UNION {UNION {UNION {
    {InDatacenterFitness(
       RoleFitness({id_worker[p].processClass : p \in proxies.workers \cup {fp.worker}}, "Proxy"),
       RoleFitness({id_worker[p].processClass : p \in resolvers.workers \cup {fr.worker}}, "Resolver"),
       Cardinality(proxies.workers) + 1, Cardinality(resolvers.workers) + 1) :
     resolvers \in getWorkersForRoleInDatacenter(dcId, "Resolver", c.desiredResolvers - 1, c,
                                                 proxies.id_used, fr, restStable)} :
    proxies \in getWorkersForRoleInDatacenter(dcId, "Proxy", c.desiredProxies - 1, c,
                                              fp.id_used, fp, restStable)} :
    fp \in getWorkerForRoleInDatacenter(dcId, "Proxy", c, fr.id_used, firstStable)} :
    fr \in getWorkerForRoleInDatacenter(dcId, "Resolver", c, id_used, firstStable)}

(***************************************************************************)
(* Recruitment: transaction logs across datacenters.                       *)
(***************************************************************************)
\* LocalitySet::validate( policy ) for a policy "across policy distinct zones"
PolicyValidate(workers, policy) ==
  Cardinality({id_worker[p].interf.zoneId : p \in workers}) >= policy

\* findBestPolicySet( bestSet, logServerSet, policy, desired, ... ): the sets it can
\* return; the search is stochastic and bounded, so it can also find nothing.
findBestPolicySet(logServerSet, policy, desired) ==
  {S \in SUBSET logServerSet : Cardinality(S) = desired /\ PolicyValidate(S, policy)}

\* Mutant of TLogCandidates: every eligible worker enters every tier.
TLogCandidatesAnyTier(c, checkStable, fitness) ==
  {p \in DOMAIN id_worker :
     /\ workerAvailable(id_worker[p], checkStable)
     /\ ~isExcludedServer(c, id_worker[p].interf.address)
     /\ machineClassFitness(id_worker[p].processClass, "TLog") # NeverAssign}

\* Lines 227-231: the workers that enter fitness_workers[ fitness ].
TLogCandidates(c, checkStable, fitness) ==
  {p \in DOMAIN id_worker :
     /\ workerAvailable(id_worker[p], checkStable)
     /\ ~isExcludedServer(c, id_worker[p].interf.address)
     /\ machineClassFitness(id_worker[p].processClass, "TLog") = fitness
     /\ fitness # NeverAssign}

\* Mutant of TierValidates: a set of the right size is returned unvalidated.
TierValidatesAnything(logServerSet, c) == TRUE

\* Line 273: logServerSet->validate(conf.tLogPolicy)
TierValidates(logServerSet, c) == PolicyValidate(logServerSet, c.tLogPolicy)

TLogOutcome(status, workers) == [status |-> status, workers |-> workers]

RECURSIVE TLogTiers(_, _, _, _)
\* Lines 254-330: the loop over the fitness tiers from `fitness` on, logServerSet holding
\* the workers of the better tiers.  The set of results the function can end with.
TLogTiers(fitness, logServerSet, c, checkStable) ==
  IF fitness = NeverAssign
    THEN \* line 341 reads conf.tLogPolicy->info(): undefined when the policy is unset
         IF c.tLogPolicy = 0 THEN {TLogOutcome("no_more_servers", {}), TLogOutcome("crash", {})}
         ELSE {TLogOutcome("no_more_servers", {})}
  ELSE LET tier == TLogCandidates(c, checkStable, fitness)
           set == logServerSet \cup tier
           next == TLogTiers(fitness + 1, set, c, checkStable)
       IN IF tier = {} THEN next
          ELSE IF Cardinality(set) < c.tLogReplicationFactor THEN next
          ELSE IF c.tLogPolicy = 0 THEN {TLogOutcome("internal_error", {})}  \* ASSERT(conf.tLogPolicy)
          ELSE IF Cardinality(set) <= c.desiredLogs
            THEN IF TierValidates(set, c) THEN {TLogOutcome("ok", set)} ELSE next
          ELSE {TLogOutcome("ok", S) : S \in findBestPolicySet(set, c.tLogPolicy, c.desiredLogs)}
                 \cup next

\* getWorkersForTlogsAcrossDatacenters( conf, id_used, checkStable ): its possible results
getWorkersForTlogsAcrossDatacenters(c, checkStable) == TLogTiers(BestFit, {}, c, checkStable)

\* What a call left behind: how it ended, the workers it returned and id_used.
TLogResult(out, id_used) ==
  [status |-> out.status, workers |-> out.workers,
   id_used |-> IF out.status = "ok" THEN UseWorkers(id_used, out.workers) ELSE id_used]

NoTLogResult == TLogResult(TLogOutcome("none", {}), NoneUsed)

\* Nothing is configured and no placement has been asked for.
\* How a call of findWorkersForConfiguration ended: "ok" when it returned a reply, else
\* the error thrown; how the tlog recruitment ended; the fitness of the tlogs and of the
\* best datacenter, as far as they were computed.
FindOutcome(status, tlogs, across, bestFitness) ==
  [status |-> status, tlogs |-> tlogs, across |-> across, bestFitness |-> bestFitness]

\* No call of findWorkersForConfiguration has been made.
NoFindResult ==
  [last |-> FindOutcome("none", "none", AcrossDatacenterFitness(NeverAssign, 0),
                        DefaultInDatacenterFitness),
   at |-> 0, rejected |-> FALSE]

\* No call of getStorageWorker has been made.
NoStorageResult == [called |-> FALSE, req |-> <<>>, worker |-> 0]

\* No comparator and no role getter has been called on its own.
NoPlaceCall == [fn |-> "none"]

PlaceIdle ==
  /\ conf = DefaultConfiguration
  /\ tlogResult = NoTLogResult
  /\ findResult = NoFindResult
  /\ storageResult = NoStorageResult
  /\ placeCall = NoPlaceCall

(***************************************************************************)
(* The database: ServerDBInfo, ClientDBInfo and the two cells.             *)
(***************************************************************************)
\* RecoveryState (fdbserver/RecoveryState.h): the two ends of the scale
UNINITIALIZED == 0
FULLY_RECOVERED == 6

\* ClientDBInfo(): no id, no proxies, sampling off
ClientDBInfo(id, proxies, sampleRate, sizeLimit) ==
  [id |-> id, proxies |-> proxies, clientTxnInfoSampleRate |-> sampleRate,
   clientTxnInfoSizeLimit |-> sizeLimit]

DefaultClientDBInfo == ClientDBInfo(0, {}, "inf", -1)

\* MasterInterface: its id and the process it runs on; MasterInterface() has neither
MasterInterface(id, processId) == [id |-> id, processId |-> processId]

\* ServerDBInfo( "DB" ).  Vectors of interfaces are the sets of their processIds.
DefaultServerDBInfo ==
  [id |-> 0, master |-> MasterInterface(0, 0), masterLifetime |-> 0,
   recoveryState |-> UNINITIALIZED, priorCommittedLogServers |-> {},
   client |-> DefaultClientDBInfo, logSystemConfig |-> {}, resolvers |-> {},
   recoveryCount |-> 0]

\* The operation handled last: whether it took effect, whether it published a new
\* ServerDBInfo, and what it sent on the request's reply.
DBEvent(op, applied, changed, reply) ==
  [op |-> op, applied |-> applied, changed |-> changed, reply |-> reply]

\* ClusterControllerData's constructor (line 734): startTime(now())
startTime == 1

\* DBInfo() and ClusterControllerData( ccInterface ): the first id is drawn for serverInfo
DBInit ==
  /\ serverInfo = [DefaultServerDBInfo EXCEPT !.id = 1]
  /\ clientInfo = DefaultClientDBInfo
  /\ masterRegistrationCount = 0
  /\ config = DefaultConfiguration
  /\ forceMasterFailure = FALSE
  /\ masterProcessId = 0
  /\ betterMasterExistsChecker = "ready"
  /\ wdState = "pick"
  /\ nextUID = 2
  /\ dbEvent = DBEvent("none", FALSE, FALSE, "none")
  /\ txnInfoRead = <<>>
  /\ waitFailureClient = "none"

(***************************************************************************)
(* Requests and their reply promises.                                      *)
(***************************************************************************)
\* The reply promise of a request: the kind of the request, how often the promise was
\* sent to and with what first.  A promise lives where the controller keeps the request.
ReplyPromise(kind) == [kind |-> kind, sends |-> 0, how |-> "none"]

\* The promise of a WorkerInfo that was built without a request
NoReply == ReplyPromise("none")

\* reply.send( value ), reply.sendError( e ), reply.send( Never() )
Send(reply, how) ==
  IF reply = NoReply THEN reply
  ELSE [reply EXCEPT !.sends = @ + 1, !.how = IF @ = "none" THEN how ELSE @]

\* The controller lets go of a request: no variable, queue or actor refers to it any
\* more.  A request answered with one value or one error is over; any other promise
\* joins `unanswered`.
LetGo(un, reply) ==
  IF reply = NoReply \/ (reply.sends = 1 /\ reply.how \in {"value", "error"}) THEN un
  ELSE un \cup {reply}

\* reply.send( value ) on each of a set of promises, which are let go of then
AnswerAll(un, held, how) ==
  un \cup {Send(reply, how) : reply \in {x \in held : LetGo({}, Send(x, how)) # {}}}

\* A request that is answered by the handler that receives it and kept nowhere
Answered(un, kind, how) == LetGo(un, Send(ReplyPromise(kind), how))

\* AsyncVar::set( info ) on the clientInfo cell: every clusterOpenDatabase waiting at
\* line 893 leaves its loop unless the id is still the one it knows, and replies (904).
OpensAnswered(info) == {s \in DOMAIN opens : opens[s].waiting /\ opens[s].known # info.id}

OpenDone(info) == [waiting |-> FALSE, known |-> info.id, reply |-> NoReply]

OpensAfter(info) ==
  [s \in DOMAIN opens |-> IF s \in OpensAnswered(info) THEN OpenDone(info) ELSE opens[s]]

RepliesAfterOpens(info, un) ==
  AnswerAll(un, {opens[s].reply : s \in OpensAnswered(info)}, "value")

ReqInit ==
  /\ ccRunning = TRUE
  /\ unanswered = {}
  /\ outstandingRecruitmentRequests = <<>>
  /\ outstandingStorageRequests = <<>>
  /\ storageReplies = {}
  /\ recruitRetry = <<>>
  /\ opens = [s \in 1..NumPolls |-> [waiting |-> FALSE, known |-> 0, reply |-> NoReply]]
  /\ statusState = "idle"
  /\ requests = <<>>
  /\ requests_batch = <<>>
  /\ statusCall = 0

(***************************************************************************)
(* clusterGetServerInfo: the long poll on the serverInfo cell.             *)
(***************************************************************************)
Poll == 1..NumPolls

\* A subscriber: whether a request of its is waiting in the loop of line 862, the
\* knownServerInfoID it passed, the ids it has been sent, and how the last reply came
\* about ("immediate", "change", "timeout"), with whether its id was the known one or
\* one sent before, and whether it was drawn later than the known one.
PollInit ==
  polls = [s \in Poll |-> [waiting |-> FALSE, known |-> 0, seen |-> {}, reply |-> NoReply,
                           last |-> "none", repeated |-> FALSE, newer |-> FALSE]]

\* Mutant of LongPollWaits: the loop is never entered.
LongPollWaitsNever(currentId, knownId) == FALSE

\* Line 862: while (db->serverInfo->get().id == knownServerInfoID)
LongPollWaits(currentId, knownId) == currentId = knownId

\* Mutant of SendServerInfo: the reply carries the ServerDBInfo the subscriber knows
SendServerInfoKnown(poll, info, cause) ==
  [poll EXCEPT !.waiting = FALSE, !.reply = NoReply, !.last = cause, !.repeated = TRUE,
               !.newer = FALSE]

\* Line 872: reply.send( db->serverInfo->get() ), as the subscriber records it; its next
\* request passes the id it was sent.
SendServerInfo(poll, info, cause) ==
  [waiting |-> FALSE, known |-> info.id, seen |-> poll.seen \cup {info.id},
   reply |-> NoReply, last |-> cause, repeated |-> info.id \in poll.seen \cup {poll.known},
   newer |-> info.id > poll.known]

\* AsyncVar::set( info ), a no-op when the value equals the stored one: otherwise the
\* value is stored and onChange fires, which resumes every
\* clusterGetServerInfo waiting at line 864; each leaves the loop unless the id is
\* still the one it knows, and replies.  un is what the caller has made of `unanswered`.
SetServerInfo(info, un) ==
  IF info.id = serverInfo.id      \* operator== of ServerDBInfo compares the ids
    THEN UNCHANGED <<serverInfo, polls>> /\ unanswered' = un
    ELSE LET answered == {s \in Poll : polls[s].waiting /\ ~LongPollWaits(info.id, polls[s].known)}
         IN /\ serverInfo' = info
            /\ polls' = [s \in Poll |->
                           IF s \in answered THEN SendServerInfo(polls[s], info, "change")
                           ELSE polls[s]]
            /\ unanswered' = AnswerAll(un, {polls[s].reply : s \in answered}, "value")

\* The requests the controller holds
Held ==
  Cardinality({p \in DOMAIN id_worker : id_worker[p].reply # NoReply})
    + Len(outstandingRecruitmentRequests) + Len(outstandingStorageRequests)
    + Len(recruitRetry) + Len(requests) + Len(requests_batch)
    + Cardinality({s \in Poll : polls[s].waiting})
    + Cardinality({s \in DOMAIN opens : opens[s].waiting})

\* A GetServerDBInfoRequest of subscriber s arrives (lines 1566-1568, 849-874).
GetServerDBInfoRequest(s) ==
  /\ ccRunning
  /\ ~polls[s].waiting
  /\ Held < MaxReq
  /\ LET reply == ReplyPromise("GetServerDBInfo")
     IN IF LongPollWaits(serverInfo.id, polls[s].known)
          THEN /\ polls' = [polls EXCEPT ![s] = [polls[s] EXCEPT !.waiting = TRUE,
                                                                 !.reply = reply]]
               /\ UNCHANGED unanswered
          ELSE /\ polls' = [polls EXCEPT ![s] = SendServerInfo(polls[s], serverInfo, "immediate")]
               /\ unanswered' = LetGo(unanswered, Send(reply, "value"))
  /\ UNCHANGED <<now, fdVars, regVars, placeVars, dbVars, ccRunning, queueVars, opens, statusVars>> /\ NoStorageReplies

\* Line 865: delayJittered( 300 ) fires for a waiting request.
LongPollTimeout(s) ==
  /\ ccRunning
  /\ polls[s].waiting
  /\ polls' = [polls EXCEPT ![s] = SendServerInfo(polls[s], serverInfo, "timeout")]
  /\ unanswered' = LetGo(unanswered, Send(polls[s].reply, "value"))
  /\ UNCHANGED <<now, fdVars, regVars, placeVars, dbVars, ccRunning, queueVars, opens, statusVars>> /\ NoStorageReplies

(***************************************************************************)
(* clusterWatchDatabase: the watchdog.                                     *)
(***************************************************************************)
\* Mutant of getMasterWorker: a worker that keeps rebooting counts as stable
getMasterWorkerUnstable(checkStable) ==
  LET fit(p) == machineClassFitness(id_worker[p].processClass, "Master")
      cands == {p \in DOMAIN id_worker :
                  workerAvailable(id_worker[p], FALSE) /\ fit(p) < NeverAssign}
  IN {p \in cands : \A q \in cands : fit(p) <= fit(q)}

\* getMasterWorker( checkStable ): the workers it can return; none when it throws
\* no_more_servers.  Ties are broken at random.
getMasterWorker(checkStable) ==
  LET fit(p) == machineClassFitness(id_worker[p].processClass, "Master")
      cands == {p \in DOMAIN id_worker :
                  workerAvailable(id_worker[p], checkStable) /\ fit(p) < NeverAssign}
  IN {p \in cands : \A q \in cands : fit(p) <= fit(q)}

\* Mutant of WaitForGoodRecruitment: the window is tested the wrong way round.
WaitForGoodRecruitmentLate(fitness, t) ==
  fitness > EXPECTED_MASTER_FITNESS /\ t - startTime >= WAIT_FOR_GOOD_RECRUITMENT_DELAY

\* Line 771: the candidate is worse than expected and the controller has not been up
\* for WAIT_FOR_GOOD_RECRUITMENT_DELAY
WaitForGoodRecruitment(fitness, t) ==
  fitness > EXPECTED_MASTER_FITNESS /\ t - startTime < WAIT_FOR_GOOD_RECRUITMENT_DELAY

\* Lines 770-780: pick a master worker; too poor a one early on, or none at all, is
\* retried after ATTEMPT_RECRUITMENT_DELAY, otherwise RecruitMasterRequest goes out.
WatchdogPick ==
  /\ ccRunning
  /\ wdState = "pick"
  /\ \/ /\ getMasterWorker(FALSE) = {}
        /\ wdState' = "retry"
        /\ UNCHANGED masterProcessId
     \/ \E p \in getMasterWorker(FALSE) :
          IF WaitForGoodRecruitment(machineClassFitness(id_worker[p].processClass, "Master"), now)
            THEN wdState' = "retry" /\ UNCHANGED masterProcessId
            ELSE wdState' = "recruiting" /\ masterProcessId' = p
  /\ dbEvent' = DBEvent("Pick", FALSE, FALSE, "none")
  /\ UNCHANGED <<now, fdVars, regVars, placeVars, txnInfoRead, waitFailureClient, polls, reqVars, serverInfo, clientInfo,
                 masterRegistrationCount, config, forceMasterFailure,
                 betterMasterExistsChecker, nextUID>> /\ NoStorageReplies

\* Lines 773, 821, 831: the delay before the loop starts over has passed.
WatchdogRetry ==
  /\ ccRunning
  /\ wdState \in {"retry", "spinFailed"}
  /\ wdState' = "pick"
  /\ dbEvent' = DBEvent("Retry", FALSE, FALSE, "none")
  /\ UNCHANGED <<now, fdVars, regVars, placeVars, txnInfoRead, waitFailureClient, polls, reqVars, serverInfo, clientInfo,
                 masterRegistrationCount, config, forceMasterFailure, masterProcessId,
                 betterMasterExistsChecker, nextUID>> /\ NoStorageReplies

\* Mutant of RecruitedLifetime: line 798 is left out.
RecruitedLifetimeOfDefault(published) == DefaultServerDBInfo.masterLifetime + 1

\* Lines 798-799: dbInfo.masterLifetime = db->serverInfo->get().masterLifetime;
\* ++dbInfo.masterLifetime
RecruitedLifetime(published) == published + 1

\* Lines 780-803 and 819-821: the reply to RecruitMasterRequest.  A master comes back
\* (it runs on the worker that was asked) or the request fails.
RecruitMasterReply(present) ==
  /\ ccRunning
  /\ wdState = "recruiting"
  /\ IF present
       THEN /\ serverInfo.masterLifetime < MaxLifetime
            /\ nextUID <= MaxUID
            /\ masterRegistrationCount' = 0
            /\ config' = DefaultConfiguration
            /\ forceMasterFailure' = FALSE
            /\ SetServerInfo([DefaultServerDBInfo EXCEPT
                 !.master = MasterInterface(serverInfo.masterLifetime + 1, masterProcessId),
                 !.id = nextUID,
                 !.masterLifetime = RecruitedLifetime(serverInfo.masterLifetime)],
                 unanswered)
            /\ nextUID' = nextUID + 1
            /\ wdState' = "spin"
            /\ dbEvent' = DBEvent("Recruit", TRUE, TRUE, "none")
       ELSE /\ wdState' = "spinFailed"
            /\ dbEvent' = DBEvent("Recruit", FALSE, FALSE, "none")
            /\ UNCHANGED <<serverInfo, polls, unanswered, masterRegistrationCount, config,
                           forceMasterFailure, nextUID>>
  /\ UNCHANGED <<now, fdVars, regVars, placeVars, txnInfoRead, waitFailureClient, clientInfo, masterProcessId,
                 betterMasterExistsChecker, ccRunning, queueVars, opens, statusVars>> /\ NoStorageReplies

\* Lines 810-811: db->masterRegistrationCount ? MASTER_FAILURE_REACTION_TIME :
\* (now() - recoveryStart) * MASTER_FAILURE_SLOPE_DURING_RECOVERY, the reaction time a
\* waitFailureClient is started with
ReactionTime(regCount) ==
  IF regCount # 0 THEN "MASTER_FAILURE_REACTION_TIME"
                  ELSE "MASTER_FAILURE_SLOPE_DURING_RECOVERY"

\* Line 814: db->serverInfo->onChange() wakes the loop of line 809, which starts
\* waitFailureClient anew; nothing else does while the master is watched.
WatchAfterChange(watching, changed, regCount, inForce) ==
  IF watching /\ changed THEN ReactionTime(regCount) ELSE inForce

\* Line 805: MASTER_SPIN_DELAY has passed, the master is watched; the loop of line 809
\* is entered and waitFailureClient started.
WatchdogSpinDone ==
  /\ ccRunning
  /\ wdState = "spin"
  /\ wdState' = "watching"
  /\ waitFailureClient' = ReactionTime(masterRegistrationCount)
  /\ dbEvent' = DBEvent("Watching", FALSE, FALSE, "none")
  /\ UNCHANGED <<now, fdVars, regVars, placeVars, txnInfoRead, polls, reqVars, serverInfo, clientInfo,
                 masterRegistrationCount, config, forceMasterFailure, masterProcessId,
                 betterMasterExistsChecker, nextUID>> /\ NoStorageReplies

\* Lines 810-818: waitFailureClient reports the master failed (forced = FALSE) or
\* forceMasterFailure is set (forced = TRUE); the loop starts over.
WatchdogMasterFailedBy(forced) ==
  /\ ccRunning
  /\ wdState = "watching"
  /\ forced => forceMasterFailure
  /\ wdState' = "pick"
  /\ waitFailureClient' = "none"
  /\ dbEvent' = DBEvent("MasterFailed", forced, FALSE, "none")
  /\ UNCHANGED <<now, fdVars, regVars, placeVars, txnInfoRead, polls, reqVars, serverInfo, clientInfo,
                 masterRegistrationCount, config, forceMasterFailure, masterProcessId,
                 betterMasterExistsChecker, nextUID>> /\ NoStorageReplies

WatchdogMasterFailed == \E forced \in BOOLEAN : WatchdogMasterFailedBy(forced)

(***************************************************************************)
(* betterMasterExists and the better-master check.                         *)
(***************************************************************************)
\* Stands for no_more_servers thrown out of the loop of lines 688-701
InFitThrown == InDatacenterFitness(-1, -1, 0, 0)

RECURSIVE BestInFit(_, _, _, _, _)
\* Lines 686-701 (and 580-612): the loop over the datacenters (in the order of the
\* std::set), the best fitness being `cur` so far: the values it can end with,
\* InFitThrown when a first pick throws.
BestInFit(dcs, c, id_used, restStable, cur) ==
  IF dcs = <<>> THEN {cur}
  ELSE LET F == DatacenterFitness(Head(dcs), c, id_used, FALSE, restStable)
       IN IF F = {} THEN {InFitThrown}
          ELSE UNION {BestInFit(Tail(dcs), c, id_used, restStable,
                                IF InFitLess(f, cur) THEN f ELSE cur) : f \in F}

\* AcrossDatacenterFitness()
DefaultAcrossDatacenterFitness == AcrossDatacenterFitness(NeverAssign, 0)

\* One run of betterMasterExists: how it ended ("true", "false" or the error thrown),
\* the fitness of the new placement as far as it got, and whether it got to line 703
BetterCall(result, newMasterFit, newAcrossFit, newInFit, compared) ==
  [result |-> result, newMasterFit |-> newMasterFit, newAcrossFit |-> newAcrossFit,
   newInFit |-> newInFit, compared |-> compared]

\* Mutant of BetterDecision: only a better master counts
BetterDecisionByMaster(oldMasterFit, newMasterFit, oldAcrossFit, newAcrossFit, oldInFit, newInFit) ==
  IF InFitLess(oldInFit, newInFit) THEN "false"
  ELSE IF oldMasterFit > newMasterFit THEN "true"
  ELSE "false"

\* Lines 703-714: the new InDatacenterFitness must not be worse, and one of the three
\* must be better, a > b being b < a
BetterDecision(oldMasterFit, newMasterFit, oldAcrossFit, newAcrossFit, oldInFit, newInFit) ==
  IF InFitLess(oldInFit, newInFit) THEN "false"
  ELSE IF oldMasterFit > newMasterFit \/ AcrossFitLess(newAcrossFit, oldAcrossFit)
            \/ InFitLess(newInFit, oldInFit) THEN "true"
  ELSE "false"

\* Lines 667-714, once the new tlogs are chosen.
BetterInDatacenter(dbi, oldMasterFit, newMasterFit, oldAcrossFit, newAcrossFit, id_used) ==
  LET Early == {BetterCall("false", newMasterFit, newAcrossFit, DefaultInDatacenterFitness, FALSE)}
  IN IF ~(dbi.client.proxies \subseteq DOMAIN id_worker) THEN Early
     ELSE IF ~(dbi.resolvers \subseteq DOMAIN id_worker) THEN Early
     ELSE LET oldInFit == InDatacenterFitness(
                  RoleFitness({id_worker[p].processClass : p \in dbi.client.proxies}, "Proxy"),
                  RoleFitness({id_worker[p].processClass : p \in dbi.resolvers}, "Resolver"),
                  Cardinality(dbi.client.proxies), Cardinality(dbi.resolvers))
              Decide(newInFit) ==
                IF newInFit = InFitThrown THEN "no_more_servers"
                ELSE BetterDecision(oldMasterFit, newMasterFit, oldAcrossFit, newAcrossFit,
                                    oldInFit, newInFit)
          IN {BetterCall(Decide(n), newMasterFit, newAcrossFit, n, n # InFitThrown) :
                n \in BestInFit(SetToSeq(getDatacenters(config, TRUE)), config, id_used,
                                TRUE, DefaultInDatacenterFitness)}

\* Lines 654-664, given one result of getWorkersForTlogsAcrossDatacenters( db.config,
\* id_used, true ).
BetterAcrossDatacenters(dbi, oldMasterFit, newMasterFit, id_used, out) ==
  IF out.status # "ok"
    THEN {BetterCall(out.status, newMasterFit, DefaultAcrossDatacenterFitness,
                     DefaultInDatacenterFitness, FALSE)}
  ELSE LET oldAcrossFit == AcrossDatacenterFitness(
               RoleFitness({id_worker[p].processClass : p \in dbi.logSystemConfig}, "TLog"),
               Cardinality(dbi.logSystemConfig))
           newAcrossFit == AcrossDatacenterFitness(
               RoleFitness({id_worker[p].processClass : p \in out.workers}, "TLog"),
               Cardinality(out.workers))
       IN IF AcrossFitLess(oldAcrossFit, newAcrossFit)
            THEN {BetterCall("false", newMasterFit, newAcrossFit, DefaultInDatacenterFitness, FALSE)}
          ELSE BetterInDatacenter(dbi, oldMasterFit, newMasterFit, oldAcrossFit, newAcrossFit,
                                  UseWorkers(id_used, out.workers))

\* bool betterMasterExists(): the ways a run of it can go.
BetterMasterCalls ==
  LET dbi == serverInfo
      id_used == Use(NoneUsed, masterProcessId)
      fit(p) == machineClassFitness(id_worker[p].processClass, "Master")
      Early(result, newMasterFit) ==
        {BetterCall(result, newMasterFit, DefaultAcrossDatacenterFitness,
                    DefaultInDatacenterFitness, FALSE)}
  IN IF dbi.master.processId \notin DOMAIN id_worker THEN Early("false", NeverAssign)
     ELSE IF getMasterWorker(TRUE) = {} THEN Early("no_more_servers", NeverAssign)
     ELSE LET oldMasterFit == fit(dbi.master.processId)
              newMasterFit == fit(CHOOSE p \in getMasterWorker(TRUE) : TRUE)
          IN IF dbi.recoveryState < FULLY_RECOVERED
               THEN Early(IF oldMasterFit > newMasterFit THEN "true" ELSE "false", newMasterFit)
             ELSE IF oldMasterFit < newMasterFit THEN Early("false", newMasterFit)
             ELSE IF ~(dbi.logSystemConfig \subseteq DOMAIN id_worker)
               THEN Early("false", newMasterFit)
             ELSE UNION {BetterAcrossDatacenters(dbi, oldMasterFit, newMasterFit, id_used, out) :
                         out \in getWorkersForTlogsAcrossDatacenters(config, TRUE)}

\* bool betterMasterExists(): the ways it can end, "true", "false" or the error thrown.
betterMasterExists == {call.result : call \in BetterMasterCalls}

(***************************************************************************)
(* findWorkersForConfiguration, getStorageWorker and the request queues.   *)
(***************************************************************************)
\* Mutant of GoodRecruitmentWindow: the window never ends.
GoodRecruitmentWindowAlways(t) == TRUE

\* Line 621: now() - startTime < SERVER_KNOBS->WAIT_FOR_GOOD_RECRUITMENT_DELAY
GoodRecruitmentWindow(t) == t - startTime < WAIT_FOR_GOOD_RECRUITMENT_DELAY

\* Lines 622-623: the placement is worse than the expected one, a > b being b < a
WorseThanExpected(c, across, bestFitness) ==
  \/ AcrossFitLess(AcrossDatacenterFitness(EXPECTED_TLOG_FITNESS, c.desiredLogs), across)
  \/ InFitLess(InDatacenterFitness(EXPECTED_PROXY_FITNESS, EXPECTED_RESOLVER_FITNESS,
                                   c.desiredProxies, c.desiredResolvers), bestFitness)

\* findWorkersForConfiguration( req ), given one result of
\* getWorkersForTlogsAcrossDatacenters( req.configuration, id_used ): how it ends
FindWorkersGivenTLogs(c, id_used, out) ==
  IF out.status # "ok"
    THEN {FindOutcome(out.status, out.status, AcrossDatacenterFitness(NeverAssign, 0),
                      DefaultInDatacenterFitness)}
  ELSE LET across == AcrossDatacenterFitness(
               RoleFitness({id_worker[p].processClass : p \in out.workers}, "TLog"),
               Cardinality(out.workers))
           Decide(bestFitness) ==
             IF bestFitness = InFitThrown THEN "no_more_servers"
             ELSE IF bestFitness = DefaultInDatacenterFitness THEN "internal_error"  \* line 614
             ELSE IF /\ GoodRecruitmentWindow(now)
                     /\ WorseThanExpected(c, across, bestFitness)
                    THEN "operation_failed"
             ELSE "ok"
       IN {FindOutcome(Decide(b), "ok", across, b) :
             b \in BestInFit(SetToSeq(getDatacenters(c, FALSE)), c,
                             UseWorkers(id_used, out.workers), FALSE,
                             DefaultInDatacenterFitness)}

\* findWorkersForConfiguration( req ) in full: the outcomes of a call
FindOutcomes(c) ==
  UNION {FindWorkersGivenTLogs(c, Use(NoneUsed, masterProcessId), out) :
         out \in getWorkersForTlogsAcrossDatacenters(c, FALSE)}

\* RecruitFromConfigurationReply findWorkersForConfiguration( req ): the ways it can
\* end, "ok" when it returns a reply, else the error thrown
findWorkersForConfiguration(c) == {r.status : r \in FindOutcomes(c)}

\* RecruitStorageRequest, with the exclusions as sets
RecruitStorageRequest(critical, excludeMachines, excludeDCs, excludeAddresses) ==
  [criticalRecruitment |-> critical, excludeMachines |-> excludeMachines,
   excludeDCs |-> excludeDCs, excludeAddresses |-> excludeAddresses]

\* Mutant of getStorageWorker: the first eligible worker is returned whatever its fitness.
getStorageWorkerOfAnyFitness(req) ==
  LET ok == {p \in DOMAIN id_worker :
               /\ workerAvailable(id_worker[p], FALSE)
               /\ id_worker[p].interf.zoneId \notin req.excludeMachines
               /\ id_worker[p].interf.dcId \notin req.excludeDCs
               /\ id_worker[p].interf.address \notin req.excludeAddresses}
  IN IF ok # {} THEN CHOOSE p \in ok : \A q \in ok : p <= q ELSE 0

\* getStorageWorker( req ): the worker returned, 0 when it throws no_more_servers.
\* id_worker is walked in the order of its keys.
getStorageWorker(req) ==
  LET fit(p) == machineClassFitness(id_worker[p].processClass, "Storage")
      ok == {p \in DOMAIN id_worker :
               /\ workerAvailable(id_worker[p], FALSE)
               /\ id_worker[p].interf.zoneId \notin req.excludeMachines
               /\ id_worker[p].interf.dcId \notin req.excludeDCs
               /\ id_worker[p].interf.address \notin req.excludeAddresses}
      good == {p \in ok : fit(p) <= UnsetFit}
      best == {p \in ok : fit(p) < NeverAssign /\ \A q \in ok : fit(p) <= fit(q)}
      first(S) == CHOOSE p \in S : \A q \in S : p <= q
  IN IF good # {} THEN first(good)
     ELSE IF req.criticalRecruitment /\ best # {} THEN first(best)
     ELSE 0

\* Mutant of checkOutstandingMasterRequests: the check is never started
checkOutstandingMasterRequestsNever(checker) == checker

\* checkOutstandingMasterRequests: start doCheckOutstandingMasterRequests unless one is
\* still running; the actor first waits CHECK_BETTER_MASTER_INTERVAL.
checkOutstandingMasterRequests(checker) ==
  IF checker # "ready" THEN checker ELSE "pending"

\* Mutant of SwapRemove: pop_back() without the swap
PopBack(v, i) == SubSeq(v, 1, Len(v) - 1)

\* std::swap( v[i], v.back() ); v.pop_back()
SwapRemove(v, i) ==
  [j \in 1..(Len(v) - 1) |-> IF j = i THEN v[Len(v)] ELSE v[j]]

\* req.reply.send( .. ) on the i-th request of a queue
AnswerAt(v, i, how) == [v EXCEPT ![i].reply = Send(@, how)]

\* The promises of the requests that are in queue v and no longer in queue w join
\* `unanswered` unless they were answered
LetGoRemoved(un, v, w) ==
  LET count(q, x) == Cardinality({j \in DOMAIN q : q[j] = x})
      gone == {v[j].reply : j \in {k \in DOMAIN v : count(v, v[k]) > count(w, v[k])}}
  IN un \cup {reply \in gone : LetGo({}, reply) # {}}

\* What a pass over the queues leaves: the queues, `unanswered`, the checker and
\* whether an error other than the expected ones was thrown.
Outstanding(rq, sq, un, checker, replies, threw) ==
  [rq |-> rq, sq |-> sq, unanswered |-> un, checker |-> checker, replies |-> replies,
   threw |-> threw]

RECURSIVE RecruitmentPass(_, _, _)
\* checkOutstandingRecruitmentRequests from index i on: the (queue, unanswered, threw)
\* it can leave
RecruitmentPass(i, rq, un) ==
  IF i > Len(rq) THEN {<<rq, un, FALSE>>}
  ELSE UNION {
    IF how = "ok"
      THEN LET sent == AnswerAt(rq, i, "value")
               rest == SwapRemove(sent, i)
           IN RecruitmentPass(i, rest, LetGoRemoved(un, sent, rest))
    ELSE IF how \in {"no_more_servers", "operation_failed"}
      THEN RecruitmentPass(i + 1, rq, un)
    ELSE {<<rq, un, TRUE>>} :
    how \in findWorkersForConfiguration(rq[i].configuration)}

\* Mutant of AwaitsProcessClasses: no request waits for the process classes.
AwaitsProcessClassesNever(got, critical) == FALSE

\* Lines 933 and 1163: if(!self->gotProcessClasses && !req.criticalRecruitment)
\* throw no_more_servers()
AwaitsProcessClasses(got, critical) == ~got /\ ~critical

\* Mutant of Expired: a request is timed out as soon as its deadline is reached
ExpiredAtDeadline(deadline, t) == deadline <= t

\* Line 928: req.second < now()
Expired(deadline, t) == deadline < t

\* A reply of checkOutstandingStorageRequests in flight: to the request queued with
\* this deadline, timed_out or a RecruitStorageReply
StorageReply(deadline, how) == [deadline |-> deadline, how |-> how]

RECURSIVE StoragePass(_, _, _, _)
\* checkOutstandingStorageRequests from index i on: the queue, `unanswered` and the
\* replies sent
StoragePass(i, sq, un, out) ==
  IF i > Len(sq) THEN <<sq, un, out>>
  ELSE IF Expired(sq[i].deadline, now)
    THEN LET sent == AnswerAt(sq, i, "error")
             rest == SwapRemove(sent, i)
         IN StoragePass(i, rest, LetGoRemoved(un, sent, rest),
                        out \cup {StorageReply(sq[i].deadline, "timed_out")})
  ELSE IF AwaitsProcessClasses(gotProcessClasses, sq[i].req.criticalRecruitment)
            \/ getStorageWorker(sq[i].req) = 0
    THEN StoragePass(i + 1, sq, un, out)
  ELSE LET sent == AnswerAt(sq, i, "value")
           rest == SwapRemove(sent, i)
       IN StoragePass(i, rest, LetGoRemoved(un, sent, rest),
                      out \cup {StorageReply(sq[i].deadline, "worker")})

\* checkOutstandingRequests( self ): the three passes in turn; an unexpected error
\* leaves the rest undone
checkOutstandingRequests(rq, sq, un, checker) ==
  {IF r[3] THEN Outstanding(r[1], sq, r[2], checker, {}, TRUE)
   ELSE LET st == StoragePass(1, sq, r[2], {})
        IN Outstanding(r[1], st[1], st[2], checkOutstandingMasterRequests(checker), st[3],
                       FALSE) :
   r \in RecruitmentPass(1, rq, un)}

(***************************************************************************)
(* The registry at work: registerWorker, workerAvailabilityWatch,          *)
(* rebootAndCheck, monitorProcessClasses.                                  *)
(***************************************************************************)
\* What the handlers below leave alone besides the registry and the queues
RegistryFrame ==
  UNCHANGED <<now, fdVars, placeVars, polls, opens, statusVars, recruitRetry, serverInfo,
              clientInfo, masterRegistrationCount, config, forceMasterFailure, masterProcessId,
              wdState, nextUID, dbEvent, txnInfoRead, waitFailureClient, updVars>>

\* checkOutstandingRequests( self ) run on the registry as the handler has left it
CheckOutstandingAfter ==
  \E rq \in {outstandingRecruitmentRequests}, sq \in {outstandingStorageRequests},
     un \in {unanswered}, checker \in {betterMasterExistsChecker} :
    \E out \in (checkOutstandingRequests(rq, sq, un, checker))' :
      /\ outstandingRecruitmentRequests' = out.rq
      /\ outstandingStorageRequests' = out.sq
      /\ storageReplies' = out.replies
      /\ unanswered' = out.unanswered
      /\ betterMasterExistsChecker' = out.checker
      /\ ccRunning' = ~out.threw

RegisterWorkerRequest(wi, processClass, generation) ==
  [wi |-> wi, processClass |-> processClass, generation |-> generation]

\* Mutant of ClassFromDatabase: a class reported on the command line wins over any
\* stored class.
ClassFromCommandLineFirst(classes, pid, reported) ==
  IF pid \in DOMAIN classes /\ reported.type = "unset" THEN classes[pid] ELSE reported

\* Lines 1279-1281 and 1420-1424: the class id_class gives a process that reports
\* `reported`
ClassFromDatabase(classes, pid, reported) ==
  IF pid \in DOMAIN classes /\ (classes[pid].source = "DB" \/ reported.type = "unset")
    THEN classes[pid]
    ELSE reported

\* Mutant of SupersedesRegistration: a repeated generation is stale
SupersedesOnlyNewer(info, req) ==
  info.interf.id # req.wi.id \/ req.generation > info.gen

\* Mutant of SupersedesRegistration: only a repeated generation is stale
SupersedesUnlessEqual(info, req) ==
  info.interf.id # req.wi.id \/ req.generation # info.gen

\* Mutant of SupersedesRegistration: every registration supersedes the stored one
SupersedesAlways(info, req) == TRUE

\* Line 1289
SupersedesRegistration(info, req) ==
  info.interf.id # req.wi.id \/ req.generation >= info.gen

\* Mutant of WatcherAfter: the watcher of the old interface is kept.
WatcherKept(info, req) == info.watcher

\* Lines 1300-1303: the watcher after a registration is superseded; assigning
\* info->second.watcher drops the old future, which cancels the old actor
WatcherAfter(info, req) == IF info.interf.id # req.wi.id THEN req.wi.id ELSE info.watcher

\* void registerWorker( req, self )
registerWorker(req) ==
  /\ ccRunning
  /\ Held < MaxReq
  /\ RegistryFrame
  /\ UNCHANGED <<available, rebooting, id_class, gotProcessClasses>>
  /\ delta' = IF req.wi.processId \in DOMAIN id_worker
                   /\ (~SupersedesRegistration(id_worker[req.wi.processId], req)
                         \/ id_worker[req.wi.processId].interf.id = req.wi.id)
                THEN delta
                ELSE \* line 998, as workerAvailabilityWatch starts
                     SetDelta(delta, req.wi.processId,
                              ProcessData(req.wi.processId, req.processClass))
  /\ LET reply == ReplyPromise("RegisterWorker")
         pid == req.wi.processId
     IN IF pid \notin DOMAIN id_worker
          THEN /\ id_worker' =
                    [p \in DOMAIN id_worker \cup {pid} |->
                       IF p = pid
                         THEN WorkerInfo(reply, req.generation, req.wi, req.processClass,
                                         ClassFromDatabase(id_class, pid, req.processClass))
                         ELSE id_worker[p]]
               /\ CheckOutstandingAfter
        ELSE IF SupersedesRegistration(id_worker[pid], req)
          THEN /\ id_worker' = [id_worker EXCEPT ![pid] = [@ EXCEPT
                    !.processClass =
                       IF @.source = "CommandLine"
                            \/ (@.source = "Auto" /\ req.processClass.type # "unset")
                         THEN req.processClass ELSE @,
                    !.initialClass = req.processClass,
                    !.reply = reply,
                    !.gen = req.generation,
                    !.interf = IF @.id # req.wi.id THEN req.wi ELSE @,
                    !.watcher = WatcherAfter(id_worker[pid], req)]]
               /\ unanswered' = LetGo(unanswered, Send(id_worker[pid].reply, "never"))
               /\ UNCHANGED <<ccRunning, outstandingRecruitmentRequests,
                              outstandingStorageRequests,
                              betterMasterExistsChecker>> /\ NoStorageReplies
        ELSE   \* line 1307: an old registration; req goes out of scope
               /\ unanswered' = LetGo(unanswered, reply)
               /\ UNCHANGED <<id_worker, ccRunning, outstandingRecruitmentRequests,
                              outstandingStorageRequests,
                              betterMasterExistsChecker>> /\ NoStorageReplies

\* workerAvailabilityWatch, lines 1001-1006: the failure monitor's state of the storage
\* endpoint at address p changes; the watcher of the worker there starts rebootAndCheck
\* (which counts a reboot, lines 980-983) and checks the queues if the endpoint is
\* available now.
AvailabilityChange(p) ==
  /\ ccRunning
  /\ RegistryFrame
  /\ UNCHANGED <<id_class, gotProcessClasses, delta>>
  /\ available' = IF p \in available THEN available \ {p} ELSE available \cup {p}
  /\ IF p \in DOMAIN id_worker /\ p \notin available
       THEN /\ rebooting[p] < MaxReboots
            /\ id_worker' = [id_worker EXCEPT ![p].reboots = @ + 1]
            /\ rebooting' = [rebooting EXCEPT ![p] = @ + 1]
            /\ CheckOutstandingAfter
       ELSE UNCHANGED <<id_worker, rebooting, ccRunning, unanswered, outstandingRecruitmentRequests,
                        outstandingStorageRequests,
                        betterMasterExistsChecker>> /\ NoStorageReplies

\* workerAvailabilityWatch, lines 1007-1013: waitFailureClient reports the interface
\* failed that the watcher of process p's entry waits for
WorkerFailed(p) ==
  /\ ccRunning
  /\ p \in DOMAIN id_worker
  /\ RegistryFrame
  /\ unanswered' = LetGo(unanswered, Send(id_worker[p].reply, "value"))
  /\ id_worker' = [q \in DOMAIN id_worker \ {p} |-> id_worker[q]]
  /\ delta' = SetDelta(delta, p, Tombstone)
  /\ UNCHANGED <<available, rebooting, id_class, gotProcessClasses, ccRunning,
                 outstandingRecruitmentRequests, outstandingStorageRequests,
                 betterMasterExistsChecker>> /\ NoStorageReplies

\* rebootAndCheck, lines 984-991: SHUTDOWN_TIMEOUT has passed
RebootCheckDone(p) ==
  /\ ccRunning
  /\ rebooting[p] > 0
  /\ RegistryFrame
  /\ rebooting' = [rebooting EXCEPT ![p] = @ - 1]
  /\ IF p \in DOMAIN id_worker
       THEN /\ id_worker' = [id_worker EXCEPT ![p].reboots = @ - 1]
            /\ betterMasterExistsChecker' =
                 IF id_worker[p].reboots - 1 < 2
                   THEN checkOutstandingMasterRequests(betterMasterExistsChecker)
                   ELSE betterMasterExistsChecker
       ELSE UNCHANGED <<id_worker, betterMasterExistsChecker>>
  /\ UNCHANGED <<available, id_class, gotProcessClasses, delta, ccRunning, unanswered,
                 outstandingRecruitmentRequests, outstandingStorageRequests>> /\ NoStorageReplies

\* monitorProcessClasses, lines 1416-1433: the classes stored in the database are read
\* and differ from those read last, or are the first read
ProcessClassesRead(classes) ==
  /\ ccRunning
  /\ classes # id_class \/ ~gotProcessClasses
  /\ RegistryFrame
  /\ UNCHANGED <<available, rebooting, delta>>
  /\ id_class' = classes
  /\ id_worker' = [p \in DOMAIN id_worker |->
                     [id_worker[p] EXCEPT
                        !.processClass = ClassFromDatabase(classes, p, id_worker[p].initialClass)]]
  /\ gotProcessClasses' = TRUE
  /\ CheckOutstandingAfter

\* What UpdateWorkerList::update leaves alone
UpdaterFrame ==
  UNCHANGED <<now, fdVars, id_worker, available, rebooting, id_class, gotProcessClasses,
              placeVars, dbVars, polls, reqVars>> /\ NoStorageReplies

\* Mutant of WriteDelta: the keys of the tombstones are not cleared
WriteDeltaSetsOnly(stored, batch) == stored \cup {p \in DOMAIN batch : batch[p] # Tombstone}

\* Lines 130-135 as a committed transaction applies them: a key is set for each
\* ProcessData of the batch and cleared for each tombstone
WriteDelta(stored, batch) ==
  (stored \ {p \in DOMAIN batch : batch[p] = Tombstone})
    \cup {p \in DOMAIN batch : batch[p] # Tombstone}

\* Lines 109-113: the transaction that clears workerListKeys commits
UpdateWorkerListCleared ==
  /\ ccRunning
  /\ updaterState = "clear"
  /\ workerList' = {}
  /\ updaterState' = "wait"
  /\ UNCHANGED <<delta, updaterDelta>>
  /\ UpdaterFrame

\* Lines 119-124: anyDelta is set; the actor resets it and swaps the pending changes
\* into its local delta
UpdateWorkerListSwap ==
  /\ ccRunning
  /\ updaterState = "wait"
  /\ delta # <<>>
  /\ updaterDelta' = delta
  /\ delta' = <<>>
  /\ updaterState' = "write"
  /\ UNCHANGED workerList
  /\ UpdaterFrame

\* Lines 128-138: the transaction that writes the batch commits
UpdateWorkerListCommitted ==
  /\ ccRunning
  /\ updaterState = "write"
  /\ workerList' = WriteDelta(workerList, updaterDelta)
  /\ updaterDelta' = <<>>
  /\ updaterState' = "wait"
  /\ UNCHANGED delta
  /\ UpdaterFrame

\* Lines 114-116 and 139-141: commit throws and tr.onError( e ) lets the loop run
\* again; the transaction was applied (commit_unknown_result) or was not
UpdateWorkerListError(applied) ==
  /\ ccRunning
  /\ updaterState \in {"clear", "write"}
  /\ workerList' = IF ~applied THEN workerList
                   ELSE IF updaterState = "clear" THEN {}
                   ELSE WriteDelta(workerList, updaterDelta)
  /\ UNCHANGED <<delta, updaterDelta, updaterState>>
  /\ UpdaterFrame

(***************************************************************************)
(* clusterRecruitStorage, clusterRecruitFromConfiguration, the status      *)
(* server and clusterOpenDatabase.                                         *)
(***************************************************************************)
\* What these handlers leave alone besides the promises and their own queues
RequestFrame ==
  UNCHANGED <<now, fdVars, regVars, placeVars, dbVars, polls>>

\* void clusterRecruitStorage( self, req )
clusterRecruitStorage(req) ==
  /\ ccRunning
  /\ Held < MaxReq
  /\ RequestFrame
  /\ LET reply == ReplyPromise("RecruitStorage")
     IN IF AwaitsProcessClasses(gotProcessClasses, req.criticalRecruitment)
             \/ getStorageWorker(req) = 0
          THEN /\ outstandingStorageRequests' =
                    Append(outstandingStorageRequests,
                           [reply |-> reply, req |-> req, deadline |-> now + RECRUITMENT_TIMEOUT])
               /\ UNCHANGED unanswered
          ELSE /\ unanswered' = LetGo(unanswered, Send(reply, "value"))
               /\ UNCHANGED outstandingStorageRequests
  /\ UNCHANGED <<ccRunning, outstandingRecruitmentRequests, recruitRetry, opens, statusVars>>
  /\ NoStorageReplies

\* Mutant of LeftToRetryPass: no_more_servers queues the request at any time
LeftToRetryPassAlways(how, t) == how = "no_more_servers"

\* Line 1189: the error for which the request joins outstandingRecruitmentRequests
LeftToRetryPass(how, t) ==
  how = "no_more_servers" /\ t - startTime >= WAIT_FOR_GOOD_RECRUITMENT_DELAY

\* One round of the loop of clusterRecruitFromConfiguration (lines 1184-1200) for a
\* request with configuration c and promise reply; waiting is recruitRetry without it
RecruitFromConfigurationRound(reply, c, waiting) ==
  \E how \in findWorkersForConfiguration(c) :
    IF how = "ok"
      THEN /\ unanswered' = LetGo(unanswered, Send(reply, "value"))
           /\ recruitRetry' = waiting
           /\ UNCHANGED <<ccRunning, outstandingRecruitmentRequests>>
    ELSE IF LeftToRetryPass(how, now)
      THEN /\ outstandingRecruitmentRequests' =
                Append(outstandingRecruitmentRequests, [reply |-> reply, configuration |-> c])
           /\ recruitRetry' = waiting
           /\ UNCHANGED <<ccRunning, unanswered>>
    ELSE IF how \in {"operation_failed", "no_more_servers"}
      THEN /\ recruitRetry' = Append(waiting, [reply |-> reply, configuration |-> c])
           /\ UNCHANGED <<ccRunning, unanswered, outstandingRecruitmentRequests>>
    ELSE   \* goodbye, cluster controller
           /\ ccRunning' = FALSE
           /\ UNCHANGED <<unanswered, outstandingRecruitmentRequests, recruitRetry>>

\* A RecruitFromConfigurationRequest arrives (line 1541)
clusterRecruitFromConfiguration(c) ==
  /\ ccRunning
  /\ Held < MaxReq
  /\ RequestFrame
  /\ RecruitFromConfigurationRound(ReplyPromise("RecruitFromConfiguration"), c, recruitRetry)
  /\ UNCHANGED <<outstandingStorageRequests, opens, statusVars>> /\ NoStorageReplies

\* Line 1201: ATTEMPT_RECRUITMENT_DELAY has passed for the i-th of the requests that are
\* being retried
RecruitFromConfigurationRetry(i) ==
  /\ ccRunning
  /\ i \in DOMAIN recruitRetry
  /\ RequestFrame
  /\ RecruitFromConfigurationRound(recruitRetry[i].reply, recruitRetry[i].configuration,
                                   SubSeq(recruitRetry, 1, i - 1)
                                     \o SubSeq(recruitRetry, i + 1, Len(recruitRetry)))
  /\ UNCHANGED <<outstandingStorageRequests, opens, statusVars>> /\ NoStorageReplies

\* The reply promise of a StatusRequest, with how many calls of clusterGetStatus had
\* been started when the request arrived (modulo 2) and whether one was running
StatusRequest(call, running) ==
  [kind |-> "Status", sends |-> 0, how |-> "none", call |-> call, running |-> running]

\* A StatusRequest arrives: statusServer takes it at line 1323 if it waits there,
\* otherwise it stays in the stream
StatusRequestArrives ==
  /\ ccRunning
  /\ Held < MaxReq
  /\ RequestFrame
  /\ LET reply == StatusRequest(statusCall, statusState = "getting")
     IN IF statusState = "idle"
          THEN /\ requests_batch' = <<reply>>
               /\ statusState' = "delay"
               /\ UNCHANGED requests
          ELSE /\ requests' = Append(requests, reply)
               /\ UNCHANGED <<requests_batch, statusState>>
  /\ UNCHANGED <<ccRunning, unanswered, queueVars, opens, statusCall>> /\ NoStorageReplies

\* Lines 1331-1336: minwait has passed; all requests that are ready join the batch
StatusBatchReady ==
  /\ ccRunning
  /\ statusState = "delay"
  /\ RequestFrame
  /\ requests_batch' = requests_batch \o requests
  /\ requests' = <<>>
  /\ statusState' = "getting"
  /\ statusCall' = 1 - statusCall
  /\ UNCHANGED <<ccRunning, unanswered, queueVars, opens>> /\ NoStorageReplies

RECURSIVE SendBatch(_, _, _)
\* Lines 1359-1366
SendBatch(un, batch, how) ==
  IF batch = <<>> THEN un
  ELSE SendBatch(LetGo(un, Send(batch[Len(batch)], how)),
                 SubSeq(batch, 1, Len(batch) - 1), how)

\* Mutant of StatusResult: the result also goes to the requests still in the stream
StatusResultToAll(how) ==
  /\ ccRunning
  /\ statusState = "getting"
  /\ RequestFrame
  /\ unanswered' = SendBatch(unanswered, requests_batch \o requests, how)
  /\ requests_batch' = <<>> /\ statusState' = "idle" /\ requests' = <<>>
  /\ UNCHANGED <<ccRunning, queueVars, opens, statusCall>> /\ NoStorageReplies

\* clusterGetStatus is done, with a result or an error (lines 1352-1366); the loop
\* starts over and takes the first request of the stream if there is one
StatusResult(how) ==
  /\ ccRunning
  /\ statusState = "getting"
  /\ RequestFrame
  /\ unanswered' = SendBatch(unanswered, requests_batch, how)
  /\ IF requests = <<>>
       THEN requests_batch' = <<>> /\ statusState' = "idle" /\ UNCHANGED requests
       ELSE requests_batch' = <<Head(requests)>> /\ requests' = Tail(requests)
            /\ statusState' = "delay"
  /\ UNCHANGED <<ccRunning, queueVars, opens, statusCall>> /\ NoStorageReplies

\* An OpenDatabaseRequest of client s arrives (lines 1528-1530, 876-904)
clusterOpenDatabase(s) ==
  /\ ccRunning
  /\ ~opens[s].waiting
  /\ Held < MaxReq
  /\ RequestFrame
  /\ LET reply == ReplyPromise("OpenDatabase")
     IN IF clientInfo.id = opens[s].known
          THEN /\ opens' = [opens EXCEPT ![s] = [@ EXCEPT !.waiting = TRUE, !.reply = reply]]
               /\ UNCHANGED unanswered
          ELSE /\ opens' = [opens EXCEPT ![s] = OpenDone(clientInfo)]
               /\ unanswered' = LetGo(unanswered, Send(reply, "value"))
  /\ UNCHANGED <<ccRunning, queueVars, statusVars>> /\ NoStorageReplies

\* Line 894: delayJittered( 300 ) fires for a waiting client
OpenDatabaseTimeout(s) ==
  /\ ccRunning
  /\ opens[s].waiting
  /\ RequestFrame
  /\ opens' = [opens EXCEPT ![s] = OpenDone(clientInfo)]
  /\ unanswered' = LetGo(unanswered, Send(opens[s].reply, "value"))
  /\ UNCHANGED <<ccRunning, queueVars, statusVars>> /\ NoStorageReplies

\* monitorClientTxnInfoConfigs, lines 1464-1476: the sampling keys are read; a value of
\* "absent" (rate) or 0 (limit) stands for a key that is not there
ClientTxnInfoRead(rateVal, limitVal) ==
  /\ ccRunning
  /\ nextUID <= MaxUID
  /\ txnInfoRead' = <<rateVal, limitVal>>
  /\ UNCHANGED <<now, fdVars, regVars, placeVars, polls, ccRunning, queueVars, statusVars,
                 serverInfo, masterRegistrationCount, config, forceMasterFailure,
                 masterProcessId, betterMasterExistsChecker, wdState, waitFailureClient>>
  /\ NoStorageReplies
  /\ IF rateVal # "absent" \/ limitVal # 0
       THEN LET info == ClientDBInfo(nextUID, clientInfo.proxies,
                          IF rateVal # "absent" THEN rateVal ELSE clientInfo.clientTxnInfoSampleRate,
                          IF limitVal # 0 THEN limitVal ELSE clientInfo.clientTxnInfoSizeLimit)
            IN /\ clientInfo' = info
               /\ nextUID' = nextUID + 1
               /\ opens' = OpensAfter(info)
               /\ unanswered' = RepliesAfterOpens(info, unanswered)
               /\ dbEvent' = DBEvent("ClientTxnInfo", TRUE, FALSE, "none")
       ELSE /\ dbEvent' = DBEvent("ClientTxnInfo", FALSE, FALSE, "none")
            /\ UNCHANGED <<clientInfo, nextUID, opens, unanswered>>

\* Mutant of ChangedFields: a new recoveryCount alone is not published.
ChangedFieldsButCount(dbInfo, cInfo, req) ==
  {f \in {"recoveryState", "priorCommittedLogServers", "logSystemConfig", "resolvers"} :
     dbInfo[f] # req[f]}
    \cup (IF cInfo.proxies # req.proxies THEN {"proxies"} ELSE {})

\* Lines 1224-1259: the fields of the request that differ from what is published; the
\* proxies are compared with those of the clientInfo cell.
ChangedFields(dbInfo, cInfo, req) ==
  {f \in {"recoveryState", "priorCommittedLogServers", "logSystemConfig", "resolvers",
          "recoveryCount"} : dbInfo[f] # req[f]}
    \cup (IF cInfo.proxies # req.proxies THEN {"proxies"} ELSE {})

\* Mutant of RegistrationAccepted: a registration count seen before is accepted again.
RegistrationAcceptedAgain(masterId, regCount, req) ==
  ~(masterId # req.id \/ req.registrationCount < regCount)

\* Line 1213, negated: the request comes from the published master and is newer than
\* every registration accepted from it.
RegistrationAccepted(masterId, regCount, req) ==
  ~(masterId # req.id \/ req.registrationCount <= regCount)

\* void clusterRegisterMaster( self, req ): req.reply.send( Void() ) comes first
clusterRegisterMaster(req) ==
  /\ ccRunning
  /\ UNCHANGED <<now, fdVars, regVars, placeVars, txnInfoRead, forceMasterFailure, masterProcessId, wdState,
                 ccRunning, queueVars, statusVars>> /\ NoStorageReplies
  /\ LET fields == ChangedFields(serverInfo, clientInfo, req)
           newClient == ClientDBInfo(nextUID, req.proxies, clientInfo.clientTxnInfoSampleRate,
                                     clientInfo.clientTxnInfoSizeLimit)
           drawn == IF "proxies" \in fields THEN 1 ELSE 0
           dbInfo == [serverInfo EXCEPT
                        !.recoveryState = req.recoveryState,
                        !.priorCommittedLogServers = req.priorCommittedLogServers,
                        !.client = IF "proxies" \in fields THEN newClient ELSE @,
                        !.logSystemConfig = req.logSystemConfig,
                        !.resolvers = req.resolvers,
                        !.recoveryCount = req.recoveryCount,
                        !.id = nextUID + drawn]
           sent == Answered(unanswered, "RegisterMaster", "value")
       IN IF ~RegistrationAccepted(serverInfo.master.id, masterRegistrationCount, req)
            THEN /\ dbEvent' = DBEvent("RegisterMaster", FALSE, FALSE, "Void")
                 /\ unanswered' = sent
                 /\ UNCHANGED <<serverInfo, polls, opens, clientInfo, masterRegistrationCount,
                                config, nextUID, betterMasterExistsChecker, waitFailureClient>>
            ELSE /\ nextUID + drawn <= MaxUID
                 /\ masterRegistrationCount' = req.registrationCount
                 /\ waitFailureClient' = WatchAfterChange(wdState = "watching", fields # {},
                                           req.registrationCount, waitFailureClient)
                 /\ config' = req.configuration
                 /\ clientInfo' = IF "proxies" \in fields THEN newClient ELSE clientInfo
                 /\ opens' = IF "proxies" \in fields THEN OpensAfter(newClient) ELSE opens
                 /\ LET told == IF "proxies" \in fields THEN RepliesAfterOpens(newClient, sent)
                                 ELSE sent
                    IN IF fields # {}
                         THEN SetServerInfo(dbInfo, told) /\ nextUID' = nextUID + drawn + 1
                         ELSE UNCHANGED <<serverInfo, polls, nextUID>> /\ unanswered' = told
                 /\ betterMasterExistsChecker' =
                      checkOutstandingMasterRequests(betterMasterExistsChecker)
                 /\ dbEvent' = DBEvent("RegisterMaster", TRUE, fields # {}, "Void")

\* RegisterMasterRequest, the fields the handler reads
RegisterMasterRequest(id, registrationCount, recoveryState, priorCommittedLogServers, proxies, logSystemConfig, resolvers, recoveryCount, configuration) ==
  [id |-> id, registrationCount |-> registrationCount, recoveryState |-> recoveryState,
   priorCommittedLogServers |-> priorCommittedLogServers, proxies |-> proxies,
   logSystemConfig |-> logSystemConfig, resolvers |-> resolvers,
   recoveryCount |-> recoveryCount, configuration |-> configuration]

\* Mutant of SendForceMasterFailure: line 958 is left out.
SendForceMasterFailureAgain(better, isSet) == better

\* Lines 957-959: forceMasterFailure.send( Void() ) is reached when betterMasterExists
\* returned true and the promise is not set
SendForceMasterFailure(better, isSet) == better /\ ~isSet

\* doCheckOutstandingMasterRequests once CHECK_BETTER_MASTER_INTERVAL has passed (lines
\* 957-963); an error betterMasterExists throws ends the actor, which leaves the
\* future ready as well.
doCheckOutstandingMasterRequests ==
  /\ ccRunning
  /\ betterMasterExistsChecker = "pending"
  /\ \E better \in betterMasterExists :
       LET sent == SendForceMasterFailure(better = "true", forceMasterFailure)
       IN /\ forceMasterFailure' = (forceMasterFailure \/ sent)
          /\ dbEvent' = DBEvent("BetterMasterCheck", better = "true", sent, "none")
  /\ betterMasterExistsChecker' = "ready"
  /\ UNCHANGED <<now, fdVars, regVars, placeVars, txnInfoRead, waitFailureClient, polls, reqVars, serverInfo, clientInfo,
                 masterRegistrationCount, config, masterProcessId, wdState, nextUID>> /\ NoStorageReplies

(***************************************************************************)
(* Failure detection server.                                               *)
(***************************************************************************)
Address == 1..NumAddr
LocalAddress == 1          \* g_network->getLocalAddress()

\* FailureStatusInfo(): status is FailureStatus(), which is failed
NewFailureStatusInfo == [failed |-> TRUE, lastRequestTime |-> 0, penultimateRequestTime |-> 0]

insertRequest(stat, t) ==
  [stat EXCEPT !.penultimateRequestTime = stat.lastRequestTime, !.lastRequestTime = t]

latency(stat, t) == Max(t - stat.lastRequestTime, stat.lastRequestTime - stat.penultimateRequestTime)

\* Mutant of TrimHistory: the history is never trimmed.
TrimHistoryNever(h, n) == h

\* while (statusHistory.size() > currentStatus.size()) statusHistory.pop_front();
RECURSIVE TrimHistory(_, _)
TrimHistory(h, n) == IF Len(h) > n THEN TrimHistory(Tail(h), n) ELSE h

\* The addresses a status map reports as up.
UpSet(cs) == {a \in DOMAIN cs : ~cs[a].failed}

\* "Send everything": one SystemFailureStatus per entry of currentStatus, in map order.
AllChanges(cs) ==
  LET order == SetToSeq(DOMAIN cs)
  IN [i \in 1..Len(order) |-> [address |-> order[i], failed |-> cs[order[i]].failed]]

\* Mutant of DeltaStart: the delta starts one change too late.
DeltaStartSkipsOne(reqVersion, version, histLen) == reqVersion - version + histLen + 1

\* The first index (0-based, as in the code) of statusHistory that a delta reply sends.
DeltaStart(reqVersion, version, histLen) == reqVersion - version + histLen

\* The condition under which the whole of currentStatus is sent.
SendEverything(reqVersion, version, histLen) ==
  reqVersion < version - histLen \/ reqVersion = 0

\* The FailureMonitoringReply built at lines 1081-1102 for a request that asks for
\* reqVersion, from the state after the sender's status was applied.
MakeReply(reqVersion, version, cs, hist) ==
  IF SendEverything(reqVersion, version, Len(hist))
  THEN [failureInformationVersion |-> version, allOthersFailed |-> TRUE,
        changes |-> AllChanges(cs)]
  ELSE [failureInformationVersion |-> version, allOthersFailed |-> FALSE,
        changes |-> SubSeq(hist, DeltaStart(reqVersion, version, Len(hist)) + 1, Len(hist))]

FDInit ==
  /\ fdRunning = TRUE
  /\ currentVersion = 0
  /\ currentStatus = <<>>
  /\ statusHistory = <<>>
  /\ periodically = 0
  /\ fdReplied = "nothing"
  /\ statusAt = <<{}>>          \* statusAt[v + 1] is the up set at version v


\* Lines 1046-1072: the sender's status is applied.  The result carries the state at
\* the point the handler goes on to the reply, or at the point an ASSERT threw.
ApplySenderStatus(address, sender) ==
  LET unchanged == [threw |-> FALSE, cs |-> currentStatus, hist |-> statusHistory,
                    version |-> currentVersion, at |-> statusAt]
      stat0 == IF address \in DOMAIN currentStatus THEN currentStatus[address]
               ELSE NewFailureStatusInfo                \* currentStatus[ address ]
      stat1 == insertRequest(stat0, now)
      newFailed == (sender = "failed")
      withReq == (address :> stat1) @@ currentStatus
      pushed == Append(statusHistory, [address |-> address, failed |-> newFailed])
      set == (address :> [stat1 EXCEPT !.failed = newFailed]) @@ currentStatus
  IN IF sender = "none" THEN unchanged
     ELSE IF newFailed /\ address = LocalAddress
       THEN \* ASSERT( !newStat.failed || address != g_network->getLocalAddress() )
            [unchanged EXCEPT !.threw = TRUE, !.cs = (address :> stat0) @@ currentStatus]
     ELSE IF newFailed = stat1.failed
       THEN [unchanged EXCEPT !.cs = withReq]
     ELSE IF newFailed
       THEN \* ASSERT(false): the client reports explicitly that it is failed
            [threw |-> TRUE, cs |-> withReq, hist |-> pushed,
             version |-> currentVersion + 1, at |-> statusAt]
     ELSE [threw |-> FALSE, cs |-> set, hist |-> TrimHistory(pushed, Cardinality(DOMAIN set)),
           version |-> currentVersion + 1, at |-> Append(statusAt, UpSet(set))]

\* An ASSERT that fails throws internal_error out of the actor: the actor and its
\* state variables are gone.
FDThrows(replied) ==
  /\ fdRunning' = FALSE
  /\ currentVersion' = 0
  /\ currentStatus' = <<>>
  /\ statusHistory' = <<>>
  /\ statusAt' = <<{}>>
  /\ fdReplied' = replied

\* when ( FailureMonitoringRequest req = waitNext( requests ) ), lines 1045-1104
FailureMonitoringRequest(address, sender, reqVersion) ==
  LET a == ApplySenderStatus(address, sender)
  IN /\ fdRunning
     /\ a.version <= MaxVersion
     /\ IF a.threw
          THEN FDThrows("nothing")
        ELSE IF reqVersion > a.version
          THEN \* req.reply.sendError( future_version() ); ASSERT(false);
               FDThrows("future_version")
        ELSE IF a.version < Len(a.hist)
          THEN \* ASSERT( currentVersion >= (int64_t)statusHistory.size() )
               FDThrows("nothing")
        ELSE \* req.reply.send( reply ), reply being MakeReply(reqVersion, ...) of the new state
             /\ fdRunning' = TRUE
             /\ currentStatus' = a.cs
             /\ statusHistory' = a.hist
             /\ currentVersion' = a.version
             /\ statusAt' = a.at
             /\ fdReplied' = "reply"
     /\ UNCHANGED <<now, periodically, regVars, placeVars, dbVars, polls, reqVars>> /\ NoStorageReplies

RECURSIVE RemoveOne(_, _)
\* A sequence without the first occurrence of x.
RemoveOne(s, x) ==
  IF s = <<>> THEN <<>>
  ELSE IF Head(s) = x THEN Tail(s) ELSE <<Head(s)>> \o RemoveOne(Tail(s), x)

SeqMin(s) == CHOOSE x \in {s[i] : i \in 1..Len(s)} : \A j \in 1..Len(s) : x <= s[j]

RECURSIVE NthElement(_, _)
\* std::nth_element: the element at position n (0-based) of the sorted sequence.
NthElement(s, n) == IF n = 0 THEN SeqMin(s) ELSE NthElement(RemoveOne(s, SeqMin(s)), n - 1)

\* Mutant of PivotDelay: the pivot is the slowest latency, not the second slowest.
PivotDelaySlowest(cs, t) ==
  LET order == SetToSeq({a \in DOMAIN cs : cs[a].penultimateRequestTime # 0})
      delays == [i \in 1..Len(order) |-> latency(cs[order[i]], t)]
      pivotDelay == IF Len(delays) > 0 THEN NthElement(delays, Len(delays) - 1) ELSE 0
  IN Max(0, pivotDelay - CLIENT_REQUEST_INTERVAL)

\* Mutant of PivotDelay: no adaptation to global unresponsiveness.
PivotDelayNone(cs, t) == 0

\* Lines 1113-1125: "Adapt to global unresponsiveness".
PivotDelay(cs, t) ==
  LET order == SetToSeq({a \in DOMAIN cs : cs[a].penultimateRequestTime # 0})
      delays == [i \in 1..Len(order) |-> latency(cs[order[i]], t)]
      pivot == Max(0, Len(delays) - 2)
      pivotDelay == IF Len(delays) > 0 THEN NthElement(delays, pivot) ELSE 0
  IN Max(0, pivotDelay - CLIENT_REQUEST_INTERVAL)

\* Mutant of DeclaredFailed: the local address is treated like any other.
DeclaredFailedAnyAddress(address, stat, pivotDelay, t) ==
  LET delay == t - stat.lastRequestTime
  IN \/ delay > pivotDelay * 2 + CLIENT_REQUEST_INTERVAL + FAILURE_MIN_DELAY
     \/ delay > FAILURE_MAX_DELAY

\* Line 1133: the condition under which the periodic task declares an entry failed.
DeclaredFailed(address, stat, pivotDelay, t) ==
  LET delay == t - stat.lastRequestTime
  IN /\ address # LocalAddress
     /\ \/ delay > pivotDelay * 2 + CLIENT_REQUEST_INTERVAL + FAILURE_MIN_DELAY
        \/ delay > FAILURE_MAX_DELAY

RECURSIVE EvictLoop(_, _, _, _, _, _, _)
\* Lines 1130-1145: the loop over currentStatus, in address order.
EvictLoop(order, cs, hist, version, at, pivotDelay, t) ==
  IF order = <<>> THEN [cs |-> cs, hist |-> hist, version |-> version, at |-> at]
  ELSE LET a == Head(order)
       IN IF DeclaredFailed(a, cs[a], pivotDelay, t)
          THEN LET erased == [b \in DOMAIN cs \ {a} |-> cs[b]]
               IN EvictLoop(Tail(order), erased,
                            TrimHistory(Append(hist, [address |-> a, failed |-> TRUE]),
                                        Cardinality(DOMAIN erased)),
                            version + 1, Append(at, UpSet(erased)), pivotDelay, t)
          ELSE EvictLoop(Tail(order), cs, hist, version, at, pivotDelay, t)

\* when ( Void _ = wait( periodically ) ), lines 1105-1146
Periodic ==
  LET r == EvictLoop(SetToSeq(DOMAIN currentStatus), currentStatus, statusHistory,
                     currentVersion, statusAt, PivotDelay(currentStatus, now), now)
  IN /\ fdRunning
     /\ now >= periodically
     /\ r.version <= MaxVersion
     /\ periodically' = now + CLIENT_REQUEST_INTERVAL
     /\ currentStatus' = r.cs
     /\ statusHistory' = r.hist
     /\ currentVersion' = r.version
     /\ statusAt' = r.at
     /\ UNCHANGED <<now, fdRunning, fdReplied, regVars, placeVars, dbVars, polls, reqVars>> /\ NoStorageReplies

\* Time passes.
Tick ==
  /\ now < MaxTime
  /\ now' = now + 1
  /\ UNCHANGED <<fdVars, regVars, placeVars, dbVars, polls, reqVars>> /\ NoStorageReplies

FDRequest ==
  \* failureInformationVersion decides only between a reply and future_version: a
  \* version the client can hold and one it cannot are drawn; the reply to every
  \* version is MakeReply.
  \E address \in Address, sender \in {"none", "ok", "failed"},
     reqVersion \in {currentVersion, currentVersion + 2} :
    FailureMonitoringRequest(address, sender, reqVersion)

NextFD == FDRequest \/ Periodic \/ Tick

InitFD == now = 1 /\ FDInit /\ RegIdle /\ PlaceIdle /\ DBInit /\ PollInit /\ ReqInit

SpecFD == InitFD /\ [][NextFD]_vars

\* The populations and configurations getWorkersForTlogsAcrossDatacenters is applied to.
TLogClassTypes == {"unset", "transaction", "storage", "tester"}

InitTLog ==
  /\ now = 1
  /\ FDInit
  /\ \E type \in [ProcId -> TLogClassTypes], zone \in [ProcId -> Zone] :
       id_worker = [p \in ProcId |->
                      WorkerInfo(NoReply, 0, WorkerInterface(p, p, zone[p], 1),
                                 ProcessClass(type[p], "CommandLine"),
                                 ProcessClass(type[p], "CommandLine"))]
  /\ available \in SUBSET ProcId
  /\ ClassesIdle
  /\ ReqInit
  /\ \E rf \in 1..MaxRepl, policy \in 1..MaxRepl, logs \in 1..MaxDesired, excluded \in {{}, {1}} :
       conf = DatabaseConfiguration(rf, policy, logs, 1, 1, excluded)
  /\ tlogResult = NoTLogResult
  /\ findResult = NoFindResult
  /\ storageResult = NoStorageResult
  /\ placeCall = NoPlaceCall
  /\ DBInit
  /\ PollInit

\* One call of getWorkersForTlogsAcrossDatacenters( conf, id_used ), as made at line 574.
RecruitTLogs ==
  /\ tlogResult.status = "none"
  /\ \E out \in getWorkersForTlogsAcrossDatacenters(conf, FALSE) :
       tlogResult' = TLogResult(out, NoneUsed)
  /\ UNCHANGED <<now, fdVars, regVars, conf, findResult, storageResult, placeCall, dbVars, polls, reqVars>> /\ NoStorageReplies

NextTLog == RecruitTLogs

SpecTLog == InitTLog /\ [][NextTLog]_vars


(***************************************************************************)
(* SpecFind: findWorkersForConfiguration on drawn populations, called      *)
(* within and after the window of WAIT_FOR_GOOD_RECRUITMENT_DELAY.         *)
(***************************************************************************)
FindClassTypes == {"transaction", "stateless", "unset", "storage"}

InitFind ==
  /\ now = startTime
  /\ FDInit
  /\ \E type \in [ProcId -> FindClassTypes] :
       id_worker = [p \in ProcId |->
                      WorkerInfo(NoReply, 0, WorkerInterface(p, p, ((p - 1) % NumZones) + 1, 1),
                                 ProcessClass(type[p], "CommandLine"),
                                 ProcessClass(type[p], "CommandLine"))]
  /\ available \in SUBSET ProcId
  /\ ClassesIdle
  /\ ReqInit
  /\ \E rf \in 1..MaxRepl, policy \in 1..MaxRepl, logs \in 1..MaxDesired, proxies \in 1..MaxRepl :
       conf = DatabaseConfiguration(rf, policy, logs, proxies, 1, {})
  /\ tlogResult = NoTLogResult
  /\ findResult = NoFindResult
  /\ storageResult = NoStorageResult
  /\ placeCall = NoPlaceCall
  /\ DBInit
  /\ PollInit

\* One call of findWorkersForConfiguration( req ) with req.configuration = conf.
FindWorkers ==
  /\ \E r \in FindOutcomes(conf) :
       findResult' = [last |-> r, at |-> now,
                      rejected |-> findResult.rejected \/ r.status = "operation_failed"]
  /\ UNCHANGED <<now, fdVars, regVars, conf, tlogResult, storageResult, placeCall, dbVars, polls, reqVars>> /\ NoStorageReplies

FindTick == now < MaxReqTime /\ Tick

NextFind == FindWorkers \/ FindTick

SpecFind == InitFind /\ [][NextFind]_vars

(***************************************************************************)
(* SpecStorage: getStorageWorker on drawn populations and requests.        *)
(***************************************************************************)
InitStorage ==
  /\ now = 1
  /\ FDInit
  /\ \E type \in [ProcId -> TLogClassTypes], zone \in [ProcId -> Zone] :
       id_worker = [p \in ProcId |->
                      WorkerInfo(NoReply, 0, WorkerInterface(p, p, zone[p], ((p - 1) % 2) + 1),
                                 ProcessClass(type[p], "CommandLine"),
                                 ProcessClass(type[p], "CommandLine"))]
  /\ available \in SUBSET ProcId
  /\ ClassesIdle
  /\ ReqInit
  /\ PlaceIdle
  /\ DBInit
  /\ PollInit

\* One call of getStorageWorker( req ), as made at lines 936 and 1165.
StorageWorkerCall ==
  /\ \E critical \in BOOLEAN, machines \in SUBSET Zone, dcs \in {{}, {2}}, addresses \in {{}, {2}} :
       LET req == RecruitStorageRequest(critical, machines, dcs, addresses)
       IN storageResult' = [called |-> TRUE, req |-> req, worker |-> getStorageWorker(req)]
  /\ UNCHANGED <<now, fdVars, regVars, conf, tlogResult, findResult, placeCall, dbVars, polls, reqVars>> /\ NoStorageReplies

NextStorage == StorageWorkerCall

SpecStorage == InitStorage /\ [][NextStorage]_vars

(***************************************************************************)
(* SpecDB: the watchdog, master registration and the better-master check   *)
(* over a fixed registry.                                                  *)
(***************************************************************************)
\* Three workers in one zone and datacenter: a storage, a stateless and a master class
StaticWorkers ==
  [p \in ProcId |->
     LET class == ProcessClass(IF p = 1 THEN "storage" ELSE IF p = 2 THEN "stateless"
                               ELSE "master", "CommandLine")
     IN WorkerInfo(NoReply, 0, WorkerInterface(p, p, 1, 1), class, class)]

\* A configuration a master can register: one log, policy across one zone
OneLogConfiguration == DatabaseConfiguration(1, 1, 1, 1, 1, {})

\* The other of the two values a field of a registration is drawn from
Flip(field, value) ==
  CASE field = "recoveryState" -> IF value = UNINITIALIZED THEN FULLY_RECOVERED ELSE UNINITIALIZED
    [] field = "recoveryCount" -> 1 - value
    [] field \in {"proxies", "resolvers"} -> IF value = {} THEN {2} ELSE {}
    [] OTHER -> IF value = {} THEN {1} ELSE {}

DBFields == {"recoveryState", "priorCommittedLogServers", "proxies", "logSystemConfig",
             "resolvers", "recoveryCount"}

\* The registrations drawn: from any master, old or new, with any count, carrying what
\* is published except for the fields of `flips`
DBRequest(id, count, flips) ==
  LET val(field, published) == IF field \in flips THEN Flip(field, published) ELSE published
  IN RegisterMasterRequest(id, count,
       val("recoveryState", serverInfo.recoveryState),
       val("priorCommittedLogServers", serverInfo.priorCommittedLogServers),
       val("proxies", clientInfo.proxies),
       val("logSystemConfig", serverInfo.logSystemConfig),
       val("resolvers", serverInfo.resolvers),
       val("recoveryCount", serverInfo.recoveryCount),
       OneLogConfiguration)

DBRequests ==
  {DBRequest(id, count, flips) :
     id \in 1..MaxLifetime, count \in 1..MaxRegCount,
     flips \in {{}, DBFields} \cup {{f} : f \in DBFields}}

InitDB ==
  /\ now = 1
  /\ FDInit
  /\ id_worker = StaticWorkers
  /\ available \in SUBSET ProcId
  /\ ClassesIdle
  /\ ReqInit
  /\ PlaceIdle
  /\ DBInit
  /\ PollInit

DBRecruited == RecruitMasterReply(TRUE)
DBRecruitFailed == RecruitMasterReply(FALSE)
DBRegisterMaster == \E req \in DBRequests : clusterRegisterMaster(req)

NextDB ==
  \/ WatchdogPick
  \/ WatchdogRetry
  \/ DBRecruited
  \/ DBRecruitFailed
  \/ WatchdogSpinDone
  \/ WatchdogMasterFailed
  \/ DBRegisterMaster
  \/ doCheckOutstandingMasterRequests

SpecDB == InitDB /\ [][NextDB]_vars

(***************************************************************************)
(* SpecWatchdog: SpecDB with the clock running, so that the watchdog picks *)
(* both within WAIT_FOR_GOOD_RECRUITMENT_DELAY of the start and after it.  *)
(***************************************************************************)
\* The clock is followed for this long
MaxWatchTime == 3

WatchdogTick == now < MaxWatchTime /\ Tick

NextWatchdog == NextDB \/ WatchdogTick

SpecWatchdog == InitDB /\ [][NextWatchdog]_vars

(***************************************************************************)
(* SpecPoll: subscribers of the serverInfo cell, with the publishes of the *)
(* watchdog and of master registration.                                    *)
(***************************************************************************)
PollRequests ==
  {DBRequest(id, count, flips) :
     id \in 1..MaxLifetime, count \in 1..MaxRegCount, flips \in {{}, {"recoveryState"}}}

InitPoll ==
  /\ now = 1
  /\ FDInit
  /\ id_worker = StaticWorkers
  /\ available = ProcId
  /\ ClassesIdle
  /\ ReqInit
  /\ PlaceIdle
  /\ DBInit
  /\ PollInit

PollRegisterMaster == \E req \in PollRequests : clusterRegisterMaster(req)
PollRequest == \E s \in Poll : GetServerDBInfoRequest(s)
PollTimeout == \E s \in Poll : LongPollTimeout(s)

NextPoll ==
  \/ WatchdogPick
  \/ WatchdogRetry
  \/ DBRecruited
  \/ DBRecruitFailed
  \/ WatchdogSpinDone
  \/ WatchdogMasterFailed
  \/ PollRegisterMaster
  \/ doCheckOutstandingMasterRequests
  \/ PollRequest
  \/ PollTimeout

SpecPoll == InitPoll /\ [][NextPoll]_vars

(***************************************************************************)
(* SpecReq: the requests the controller receives and their reply promises, *)
(* over a registry that workers join and leave.                            *)
(***************************************************************************)
ReqProc == {1}

\* The registrations drawn: an interface and a later generation of it, and a second
\* interface of the same process
ReqWorkers ==
  {RegisterWorkerRequest(WorkerInterface(x[1], p, 1, 1), ProcessClass("unset", "CommandLine"), x[2]) :
     x \in {<<1, 1>>, <<1, 2>>, <<2, 1>>}, p \in ReqProc}

ReqClasses == {<<>>}

InitReq ==
  /\ now = 1
  /\ FDInit
  /\ RegIdle
  /\ PlaceIdle
  /\ DBInit
  /\ PollInit
  /\ ReqInit

ReqRegisterWorker == \E req \in ReqWorkers : registerWorker(req)
ReqAvailabilityChange == \E p \in ReqProc : AvailabilityChange(p)
ReqWorkerFailed == \E p \in ReqProc : WorkerFailed(p)
ReqRebootCheckDone == \E p \in ReqProc : RebootCheckDone(p)
ReqProcessClassesRead == \E classes \in ReqClasses : ProcessClassesRead(classes)
ReqRecruitStorage ==
  \E critical \in BOOLEAN : clusterRecruitStorage(RecruitStorageRequest(critical, {}, {}, {}))
ReqRecruitFromConfiguration == clusterRecruitFromConfiguration(OneLogConfiguration)
ReqRecruitRetry == \E i \in DOMAIN recruitRetry : RecruitFromConfigurationRetry(i)
ReqStatusResult == \E how \in {"value", "error"} : StatusResult(how)
ReqOpenDatabase == \E s \in DOMAIN opens : clusterOpenDatabase(s)
ReqOpenTimeout == \E s \in DOMAIN opens : OpenDatabaseTimeout(s)
ReqClientTxnInfo == clientInfo.clientTxnInfoSizeLimit # 1 /\ ClientTxnInfoRead("absent", 1)
\* Time passes, in this specification up to MaxReqTime
ReqTick == now < MaxReqTime /\ Tick

NextReq ==
  \/ ReqRegisterWorker
  \/ ReqAvailabilityChange
  \/ ReqWorkerFailed
  \/ ReqRebootCheckDone
  \/ ReqProcessClassesRead
  \/ ReqRecruitStorage
  \/ ReqRecruitFromConfiguration
  \/ ReqRecruitRetry
  \/ StatusRequestArrives
  \/ StatusBatchReady
  \/ ReqStatusResult
  \/ ReqTick

SpecReq == InitReq /\ [][NextReq]_vars

(***************************************************************************)
(* SpecExpire: RecruitStorage requests that wait in outstandingStorageRequests *)
(* while workers register, fail and reboot and time passes.  Time, the     *)
(* controller's rebootAndCheck timers and the first read of                *)
(* monitorProcessClasses make progress; nothing obliges a worker to        *)
(* register, to fail or to change its availability.                        *)
(***************************************************************************)
NextExpire ==
  \/ ReqRegisterWorker
  \/ ReqAvailabilityChange
  \/ ReqWorkerFailed
  \/ ReqRebootCheckDone
  \/ ReqProcessClassesRead
  \/ ReqRecruitStorage
  \/ ReqTick

ExpireFairness ==
  /\ WF_vars(ReqTick)
  /\ WF_vars(ReqRebootCheckDone)
  /\ WF_vars(ReqProcessClassesRead)

SpecExpire == InitReq /\ [][NextExpire]_vars /\ ExpireFairness

(***************************************************************************)
(* SpecRecruit: RecruitFromConfiguration requests and their retries while  *)
(* workers register, fail and change availability and time passes.         *)
(***************************************************************************)
NextRecruit ==
  \/ ReqRegisterWorker
  \/ ReqAvailabilityChange
  \/ ReqWorkerFailed
  \/ ReqProcessClassesRead
  \/ ReqRecruitFromConfiguration
  \/ ReqRecruitRetry
  \/ ReqTick

SpecRecruit == InitReq /\ [][NextRecruit]_vars

(***************************************************************************)
(* SpecBetter: the watchdog, master registration and the better-master     *)
(* check while workers register and their endpoints come and go.  The      *)
(* controller's own actors make progress: the watchdog, the better-master  *)
(* check and rebootAndCheck, each once its delay has passed.               *)
(* Nothing obliges a worker to register, a master to register or to fail,  *)
(* or a RecruitMasterRequest to be answered.                               *)
(***************************************************************************)
\* The registrations drawn: a registered master flips all the fields it carries
BetterRequests ==
  {DBRequest(id, count, flips) :
     id \in 1..MaxLifetime, count \in 1..MaxRegCount, flips \in {{}, DBFields}}

\* The worker of the master class joins a registry that holds the two others
BetterProc == {3}

InitBetter ==
  /\ now = 1
  /\ FDInit
  /\ id_worker = [p \in ProcId \ BetterProc |-> StaticWorkers[p]]
  /\ \E up \in SUBSET BetterProc : available = (ProcId \ BetterProc) \cup up
  /\ ClassesIdle
  /\ ReqInit
  /\ PlaceIdle
  /\ DBInit
  /\ PollInit

\* A process that is not in the registry registers with its class
BetterRegisterWorker ==
  \E p \in BetterProc \ DOMAIN id_worker :
    registerWorker(RegisterWorkerRequest(StaticWorkers[p].interf, StaticWorkers[p].initialClass, 1))
BetterAvailabilityChange == \E p \in BetterProc : AvailabilityChange(p)
BetterRebootCheckDone == \E p \in BetterProc : RebootCheckDone(p)
BetterRegisterMaster == \E req \in BetterRequests : clusterRegisterMaster(req)
BetterMasterForcedToFail == WatchdogMasterFailedBy(TRUE)

NextBetter ==
  \/ BetterRegisterWorker
  \/ BetterAvailabilityChange
  \/ BetterRebootCheckDone
  \/ WatchdogPick
  \/ WatchdogRetry
  \/ DBRecruited
  \/ DBRecruitFailed
  \/ WatchdogSpinDone
  \/ WatchdogMasterFailed
  \/ BetterRegisterMaster
  \/ doCheckOutstandingMasterRequests

\* The steps clusterWatchDatabase takes by itself; where it waits enables one at most
BetterWatchdog ==
  WatchdogPick \/ WatchdogRetry \/ WatchdogSpinDone \/ BetterMasterForcedToFail

BetterFairness ==
  /\ WF_vars(BetterWatchdog)
  /\ WF_vars(doCheckOutstandingMasterRequests)
  /\ WF_vars(BetterRebootCheckDone)

SpecBetter == InitBetter /\ [][NextBetter]_vars /\ BetterFairness

(***************************************************************************)
(* SpecLongPoll: clusterGetServerInfo and clusterOpenDatabase side by      *)
(* side, with the publishes of the watchdog, of master registration and of *)
(* monitorClientTxnInfoConfigs.  The delayJittered( 300 ) of a waiting     *)
(* request fires in the end.                                               *)
(***************************************************************************)
\* The registrations drawn: what is published, or that with another recoveryState or
\* other proxies
LongPollRequests ==
  {DBRequest(id, count, flips) :
     id \in 1..MaxLifetime, count \in 1..MaxRegCount,
     flips \in {{}, {"recoveryState"}, {"proxies"}}}

LongPollRegisterMaster == \E req \in LongPollRequests : clusterRegisterMaster(req)

NextLongPoll ==
  \/ WatchdogPick
  \/ DBRecruited
  \/ WatchdogSpinDone
  \/ WatchdogMasterFailed
  \/ LongPollRegisterMaster
  \/ ReqClientTxnInfo
  \/ PollRequest
  \/ PollTimeout
  \/ ReqOpenDatabase
  \/ ReqOpenTimeout

\* Each waiting request has a timeout of its own (the delay of lines 865 and 893), and
\* a delay that is waited for fires.
LongPollFairness ==
  /\ \A s \in Poll : WF_vars(LongPollTimeout(s))
  /\ \A s \in Poll : WF_vars(OpenDatabaseTimeout(s))

SpecLongPoll == InitPoll /\ [][NextLongPoll]_vars /\ LongPollFairness

(***************************************************************************)
(* SpecReg: the registry of one process that registers with several        *)
(* interfaces, generations and classes, while the classes stored in the    *)
(* database are reloaded and the worker-list journal is written.           *)
(***************************************************************************)
RegClassTypes == {"unset", "storage", "transaction"}

\* Workers report the class of their command line.
RegWorkers ==
  {RegisterWorkerRequest(WorkerInterface(id, p, 1, 1), ProcessClass(type, "CommandLine"), gen) :
     id \in 1..2, p \in ReqProc, type \in RegClassTypes, gen \in 1..2}

\* The classes the database can hold for the process: none, one set by
\* `configure auto`, one set by `setclass`.
RegClasses ==
  {<<>>} \cup {[p \in ReqProc |-> class] :
                 class \in {ProcessClass("log", "Auto"), ProcessClass("storage", "DB"),
                            ProcessClass("transaction", "DB")}}

InitReg ==
  /\ now = 1
  /\ FDInit
  /\ RegIdle
  /\ PlaceIdle
  /\ DBInit
  /\ PollInit
  /\ ReqInit

RegRegisterWorker == \E req \in RegWorkers : registerWorker(req)
RegAvailabilityChange == \E p \in ReqProc : AvailabilityChange(p)
RegWorkerFailed == \E p \in ReqProc : WorkerFailed(p)
RegRebootCheckDone == \E p \in ReqProc : RebootCheckDone(p)
RegProcessClassesRead == \E classes \in RegClasses : ProcessClassesRead(classes)

NextReg ==
  \/ RegRegisterWorker
  \/ RegAvailabilityChange
  \/ RegWorkerFailed
  \/ RegRebootCheckDone
  \/ RegProcessClassesRead
  \/ UpdateWorkerListCleared
  \/ UpdateWorkerListSwap
  \/ UpdateWorkerListCommitted

SpecReg == InitReg /\ [][NextReg]_vars

(***************************************************************************)
(* SpecWorkerList: UpdateWorkerList::update writes the worker list while   *)
(* two processes register, register again and fail.  The keyspace holds    *)
(* what an earlier controller left there.  A commit can fail, applied or   *)
(* not, but succeeds in the end.                                           *)
(***************************************************************************)
WorkerListProc == {1, 2}

\* The registrations drawn: two interfaces per process
WorkerListWorkers ==
  {RegisterWorkerRequest(WorkerInterface(id, p, 1, 1), ProcessClass("unset", "CommandLine"), 1) :
     id \in 1..2, p \in WorkerListProc}

InitWorkerList ==
  /\ now = 1
  /\ FDInit
  /\ id_worker = <<>>
  /\ available = {}
  /\ rebooting = [p \in ProcId |-> 0]
  /\ id_class = <<>>
  /\ gotProcessClasses = FALSE
  /\ delta = <<>>
  /\ UpdaterIdle
  /\ workerList \in SUBSET WorkerListProc
  /\ PlaceIdle
  /\ DBInit
  /\ PollInit
  /\ ReqInit

WorkerListRegisterWorker == \E req \in WorkerListWorkers : registerWorker(req)
WorkerListWorkerFailed == \E p \in WorkerListProc : WorkerFailed(p)
WorkerListCommitError == \E applied \in BOOLEAN : UpdateWorkerListError(applied)

NextWorkerList ==
  \/ WorkerListRegisterWorker
  \/ WorkerListWorkerFailed
  \/ UpdateWorkerListCleared
  \/ UpdateWorkerListSwap
  \/ UpdateWorkerListCommitted
  \/ WorkerListCommitError

WorkerListFairness ==
  /\ WF_vars(UpdateWorkerListCleared)
  /\ WF_vars(UpdateWorkerListSwap)
  /\ WF_vars(UpdateWorkerListCommitted)

SpecWorkerList == InitWorkerList /\ [][NextWorkerList]_vars /\ WorkerListFairness

(***************************************************************************)
(* SpecCompare: the two comparators on drawn values.                       *)
(***************************************************************************)
MaxCount == 2
CompareFits == {BestFit, GoodFit, NeverAssign}

\* The InDatacenterFitness values compared: what the constructors of lines 474-507
\* build, and the default one with any counts in its uninitialized fields
InFitValues ==
  {InDatacenterFitness(pf, rf, pc, rc) : pf \in CompareFits, rf \in CompareFits,
                                         pc \in 1..MaxCount, rc \in 1..MaxCount}

\* The AcrossDatacenterFitness values compared (lines 528-551)
AcrossFitValues ==
  {AcrossDatacenterFitness(tf, tc) :
     tf \in {BestFit, GoodFit, UnsetFit, WorstFit, NeverAssign}, tc \in 0..MaxCount}

InitCompare ==
  /\ now = 1
  /\ FDInit
  /\ RegIdle
  /\ conf = DefaultConfiguration
  /\ tlogResult = NoTLogResult
  /\ findResult = NoFindResult
  /\ storageResult = NoStorageResult
  /\ \E args \in [1..3 -> InFitValues] \cup [1..3 -> AcrossFitValues] :
       placeCall = [fn |-> "none", args |-> args]
  /\ DBInit
  /\ PollInit
  /\ ReqInit

CompareFrame == UNCHANGED <<now, fdVars, regVars, conf, tlogResult, findResult, storageResult, dbVars, polls, reqVars>> /\ NoStorageReplies

\* a < b and a == b for every two of three InDatacenterFitness values, as evaluated at
\* lines 604, 614, 622 and 704
CompareInDatacenterFitness ==
  /\ placeCall.fn = "none"
  /\ placeCall.args \in [1..3 -> InFitValues]
  /\ placeCall' = [fn |-> "InDatacenterFitness", args |-> placeCall.args,
                   less |-> [i \in 1..3 |-> [j \in 1..3 |->
                               InFitLess(placeCall.args[i], placeCall.args[j])]],
                   equal |-> [i \in 1..3 |-> [j \in 1..3 |->
                               InFitEqual(placeCall.args[i], placeCall.args[j])]]]
  /\ CompareFrame

\* a < b and a == b for every two of three AcrossDatacenterFitness values, as evaluated
\* at lines 703 and 704
CompareAcrossDatacenterFitness ==
  /\ placeCall.fn = "none"
  /\ placeCall.args \in [1..3 -> AcrossFitValues]
  /\ placeCall' = [fn |-> "AcrossDatacenterFitness", args |-> placeCall.args,
                   less |-> [i \in 1..3 |-> [j \in 1..3 |->
                               AcrossFitLess(placeCall.args[i], placeCall.args[j])]],
                   equal |-> [i \in 1..3 |-> [j \in 1..3 |->
                               AcrossFitEqual(placeCall.args[i], placeCall.args[j])]]]
  /\ CompareFrame

NextCompare == CompareInDatacenterFitness \/ CompareAcrossDatacenterFitness

SpecCompare == InitCompare /\ [][NextCompare]_vars

(***************************************************************************)
(* SpecClientInfo: the writers of the clientInfo cell, clusterRegisterMaster *)
(* and monitorClientTxnInfoConfigs, with a master recruited.               *)
(***************************************************************************)
\* What is stored under client_txn_sample_rate ("absent": nothing) and under
\* client_txn_size_limit (0: nothing)
SampleRates == {"absent", "0.5"}
SizeLimits == {0, 1}

\* Lines 1457-1476, the first pass of the loop
MonitorFirstRead ==
  /\ txnInfoRead = <<>>
  /\ waitFailureClient = "none"
  /\ \E rateVal \in SampleRates, limitVal \in SizeLimits : ClientTxnInfoRead(rateVal, limitVal)

\* Lines 1481-1484: one of the two watches fires, a key having changed; the outer loop
\* starts a new transaction and reads again
MonitorWatchFired ==
  /\ txnInfoRead # <<>>
  /\ \E rateVal \in SampleRates, limitVal \in SizeLimits :
       /\ <<rateVal, limitVal>> # txnInfoRead
       /\ ClientTxnInfoRead(rateVal, limitVal)

\* Lines 1486-1488: the commit or a watch fails after the set of line 1476; tr.onError
\* returns and the inner loop reads again, whatever is stored by then
MonitorRetry ==
  /\ txnInfoRead # <<>>
  /\ \E rateVal \in SampleRates, limitVal \in SizeLimits : ClientTxnInfoRead(rateVal, limitVal)

ClientInfoRegisterMaster == \E req \in LongPollRequests : clusterRegisterMaster(req)

NextClientInfo ==
  \/ WatchdogPick
  \/ DBRecruited
  \/ WatchdogSpinDone
  \/ WatchdogMasterFailed
  \/ ClientInfoRegisterMaster
  \/ MonitorFirstRead
  \/ MonitorWatchFired
  \/ MonitorRetry
  \/ ReqOpenDatabase
  \/ ReqOpenTimeout

SpecClientInfo == InitPoll /\ [][NextClientInfo]_vars

(***************************************************************************)
(* SpecBetterCall: betterMasterExists on drawn registries and drawn        *)
(* holders of the current roles.                                           *)
(***************************************************************************)
BetterClassTypes == {"transaction", "stateless", "master"}

\* The master runs on process 1; each other role is held by one process
InitBetterCall ==
  /\ now = 1
  /\ FDInit
  /\ \E type \in [ProcId -> BetterClassTypes], registered \in {ProcId} \cup {ProcId \ {q} : q \in ProcId} :
       id_worker = [p \in registered |->
                      WorkerInfo(NoReply, 0, WorkerInterface(p, p, ((p - 1) % NumZones) + 1, 1),
                                 ProcessClass(type[p], "CommandLine"),
                                 ProcessClass(type[p], "CommandLine"))]
  /\ available \in SUBSET ProcId
  /\ ClassesIdle
  /\ ReqInit
  /\ PlaceIdle
  /\ PollInit
  /\ \E state \in {UNINITIALIZED, FULLY_RECOVERED}, tlog \in {1, 2}, proxy \in {2, 3}, resolver \in {2, 3} :
       /\ clientInfo = ClientDBInfo(1, {proxy}, "inf", -1)
       /\ serverInfo = [DefaultServerDBInfo EXCEPT
                          !.id = 1, !.master = MasterInterface(1, 1), !.masterLifetime = 1,
                          !.recoveryState = state, !.client = clientInfo,
                          !.logSystemConfig = {tlog}, !.resolvers = {resolver}]
  /\ masterRegistrationCount = 1
  /\ config = OneLogConfiguration
  /\ forceMasterFailure = FALSE
  /\ masterProcessId = 1
  /\ betterMasterExistsChecker = "ready"
  /\ wdState = "spin"
  /\ nextUID = 2
  /\ dbEvent = DBEvent("none", FALSE, FALSE, "none")
  /\ txnInfoRead = <<>>
  /\ waitFailureClient = "none"

\* One call of betterMasterExists(), as made at line 957
BetterMasterCall ==
  /\ placeCall.fn = "none"
  /\ \E call \in BetterMasterCalls : placeCall' = [fn |-> "betterMasterExists", call |-> call]
  /\ CompareFrame

NextBetterCall == BetterMasterCall

SpecBetterCall == InitBetterCall /\ [][NextBetterCall]_vars

(***************************************************************************)
(* SpecRole: getMasterWorker, getWorkerForRoleInDatacenter and             *)
(* getWorkersForRoleInDatacenter on drawn registries.                      *)
(***************************************************************************)
RoleClassTypes == {"stateless", "proxy", "tester"}
RoleDatacenters == {1, 2}
RoleNames == {"Proxy", "Resolver"}

\* Process 1 is in datacenter 1 and may be excluded; process 2 may have rebooted twice
\* within SHUTDOWN_TIMEOUT; one process at most is used by a role picked before
InitRole ==
  /\ now = 1
  /\ FDInit
  /\ \E type \in [ProcId -> RoleClassTypes], dc \in [ProcId \ {1} -> RoleDatacenters], reboots \in {0, 2} :
       /\ id_worker = [p \in ProcId |->
                         [WorkerInfo(NoReply, 0,
                                     WorkerInterface(p, p, ((p - 1) % NumZones) + 1,
                                                     IF p = 1 THEN 1 ELSE dc[p]),
                                     ProcessClass(type[p], "CommandLine"),
                                     ProcessClass(type[p], "CommandLine"))
                            EXCEPT !.reboots = IF p = 2 THEN reboots ELSE 0]]
       /\ rebooting = [p \in ProcId |-> IF p = 2 THEN reboots ELSE 0]
  /\ available \in SUBSET ProcId
  /\ id_class = <<>>
  /\ gotProcessClasses = FALSE
  /\ delta = <<>>
  /\ UpdaterIdle
  /\ workerList = {}
  /\ ReqInit
  /\ \E proxies \in {1, 3}, excluded \in {{}, {1}} :
       conf = DatabaseConfiguration(1, 1, 1, proxies, 2, excluded)
  /\ tlogResult = NoTLogResult
  /\ findResult = NoFindResult
  /\ storageResult = NoStorageResult
  /\ \E id_used \in {NoneUsed} \cup {Use(NoneUsed, p) : p \in {1, 2}} :
       placeCall = [fn |-> "none", id_used |-> id_used]
  /\ DBInit
  /\ PollInit

\* getMasterWorker( checkStable ), as called at lines 641 and 770
MasterWorkerCall ==
  /\ placeCall.fn = "none"
  /\ \E checkStable \in BOOLEAN :
       LET found == getMasterWorker(checkStable)
           call(thrown, w) == [fn |-> "getMasterWorker", checkStable |-> checkStable,
                               thrown |-> thrown, worker |-> w]
       IN IF found = {} THEN placeCall' = call(TRUE, 0)
          ELSE \E w \in found : placeCall' = call(FALSE, w)
  /\ CompareFrame

\* getWorkerForRoleInDatacenter( dcId, role, conf, id_used, checkStable ), as called at
\* lines 583-584 and 690-691
RoleWorkerCall ==
  /\ placeCall.fn = "none"
  /\ \E dcId \in RoleDatacenters, role \in RoleNames, checkStable \in BOOLEAN :
       LET found == getWorkerForRoleInDatacenter(dcId, role, conf, placeCall.id_used, checkStable)
           call(thrown, info) ==
             [fn |-> "getWorkerForRoleInDatacenter", dcId |-> dcId, role |-> role,
              checkStable |-> checkStable, id_used |-> placeCall.id_used,
              thrown |-> thrown, info |-> info]
       IN IF found = {}
            THEN placeCall' = call(TRUE, [worker |-> 0, fitness |-> NeverAssign, used |-> 0,
                                          id_used |-> placeCall.id_used])
          ELSE \E info \in found : placeCall' = call(FALSE, info)
  /\ CompareFrame

\* Lines 583-587 (and 690-694): the first resolver and the first proxy of a datacenter
\* are picked, then the other proxies with the first proxy as minWorker, then the other
\* resolvers with the first resolver as minWorker; one of the two calls of
\* getWorkersForRoleInDatacenter is kept
RoleWorkersCall ==
  /\ placeCall.fn = "none"
  /\ \E dcId \in RoleDatacenters, checkStable \in BOOLEAN :
       \E first_resolver \in getWorkerForRoleInDatacenter(dcId, "Resolver", conf, placeCall.id_used, FALSE) :
         \E first_proxy \in getWorkerForRoleInDatacenter(dcId, "Proxy", conf, first_resolver.id_used, FALSE) :
           \E proxies \in getWorkersForRoleInDatacenter(dcId, "Proxy", conf.desiredProxies - 1, conf,
                                                       first_proxy.id_used, first_proxy, checkStable) :
             LET call(role, amount, id_used, minWorker, result) ==
                   [fn |-> "getWorkersForRoleInDatacenter", dcId |-> dcId, role |-> role,
                    amount |-> amount, checkStable |-> checkStable, id_used |-> id_used,
                    minWorker |-> minWorker, result |-> result]
             IN \/ placeCall' = call("Proxy", conf.desiredProxies - 1, first_proxy.id_used,
                                     first_proxy, proxies)
                \/ \E resolvers \in getWorkersForRoleInDatacenter(
                                       dcId, "Resolver", conf.desiredResolvers - 1, conf,
                                       proxies.id_used, first_resolver, checkStable) :
                     placeCall' = call("Resolver", conf.desiredResolvers - 1, proxies.id_used,
                                       first_resolver, resolvers)
  /\ CompareFrame

NextRole == MasterWorkerCall \/ RoleWorkerCall \/ RoleWorkersCall

SpecRole == InitRole /\ [][NextRole]_vars

(***************************************************************************)
(* The failure monitor client's side of the protocol: what a reply does to *)
(* the set of addresses the client holds as up.                            *)
(***************************************************************************)
RECURSIVE ApplyChanges(_, _)
ApplyChanges(up, changes) ==
  IF changes = <<>> THEN up
  ELSE ApplyChanges(IF Head(changes).failed THEN up \ {Head(changes).address}
                    ELSE up \cup {Head(changes).address},
                    Tail(changes))

ApplyReply(up, reply) ==
  ApplyChanges(IF reply.allOthersFailed THEN {} ELSE up, reply.changes)

\* The versions a delta reply is claimed to be right for.
DeltaVersions == {v \in 0..currentVersion : v >= currentVersion - Len(statusHistory)}

\* C1: for every version reqVersion in [V - |statusHistory|, V], the reply to a request
\* for reqVersion, applied to the up set the server held at reqVersion, gives the up
\* set of the server's currentStatus at V.
C1_DeltaCorrect ==
  fdRunning =>
    /\ Len(statusAt) = currentVersion + 1
    /\ \A reqVersion \in DeltaVersions :
         ApplyReply(statusAt[reqVersion + 1],
                    MakeReply(reqVersion, currentVersion, currentStatus, statusHistory))
           = UpSet(currentStatus)

\* A request was answered in a state whose history holds an eviction and an arrival,
\* and a delta of two changes goes to a client two versions behind.
C1_Witness ==
  /\ fdRunning /\ fdReplied = "reply"
  /\ \E reqVersion \in DeltaVersions \ {0} :
       LET reply == MakeReply(reqVersion, currentVersion, currentStatus, statusHistory)
       IN /\ ~reply.allOthersFailed
          /\ Len(reply.changes) >= 2
          /\ \E i \in 1..Len(reply.changes) : reply.changes[i].failed
          /\ \E i \in 1..Len(reply.changes) : ~reply.changes[i].failed

\* C2: for every drawn population, exclusion set and availability, a set returned by
\* getWorkersForTlogsAcrossDatacenters satisfies the configuration's tLogPolicy and
\* holds only eligible workers, each counted once in id_used; the only other way the
\* function ends is NoMoreServers, and that is how it ends when no set of eligible
\* workers satisfies the policy.
C2_PolicySatisfied ==
  /\ tlogResult.status = "ok" =>
       /\ PolicyValidate(tlogResult.workers, conf.tLogPolicy)
       /\ tlogResult.id_used = [p \in ProcId |-> IF p \in tlogResult.workers THEN 1 ELSE 0]
       /\ \A p \in tlogResult.workers :
            \E f \in BestFit..WorstFit : p \in TLogCandidates(conf, FALSE, f)
  /\ tlogResult.status \in {"none", "ok", "no_more_servers"}
  /\ (tlogResult.status # "none"
        /\ \A S \in SUBSET ProcId :
             (\A p \in S : \E f \in BestFit..WorstFit : p \in TLogCandidates(conf, FALSE, f))
               => ~PolicyValidate(S, conf.tLogPolicy))
       => tlogResult.status = "no_more_servers"

\* A set was returned although the first tier of the right size did not satisfy the
\* policy: the set spans two zones and leaves an eligible worker out.
C2_Witness ==
  /\ tlogResult.status = "ok"
  /\ conf.tLogPolicy = 2
  /\ Cardinality(tlogResult.workers) = 2
  /\ \E p \in ProcId \ tlogResult.workers :
       \E f \in BestFit..WorstFit : p \in TLogCandidates(conf, FALSE, f)

\* C3, as claimed: every reply a subscriber receives carries an id that differs from the
\* knownServerInfoID it passed and from every id it was sent before.
C3_AlwaysFresh == \A s \in Poll : polls[s].last # "none" => ~polls[s].repeated

\* C3, amended: a reply that the 300 s timeout did not cause carries an id drawn later
\* than the knownServerInfoID of its request and different from every id the subscriber
\* was sent before; a reply the timeout caused carries the known id again.
C3_FreshUnlessTimeout ==
  \A s \in Poll :
    /\ polls[s].last \in {"immediate", "change"} => ~polls[s].repeated /\ polls[s].newer
    /\ polls[s].last = "timeout" => polls[s].repeated
    /\ polls[s].waiting => polls[s].known = serverInfo.id

\* A waiting request was answered by a publish, with the third id the subscriber sees.
C3_Witness ==
  \E s \in Poll : polls[s].last = "change" /\ Cardinality(polls[s].seen) >= 3

\* C4: a RegisterMaster request takes effect only if its id is that of the published
\* master and its registrationCount exceeds masterRegistrationCount; every other
\* request is acknowledged and leaves masterRegistrationCount, config, serverInfo and
\* clientInfo as they were.
C4_OnlyNewerRegistrations ==
  [][\A req \in DBRequests :
       clusterRegisterMaster(req) =>
         /\ dbEvent'.reply = "Void"
         /\ IF req.id = serverInfo.master.id /\ req.registrationCount > masterRegistrationCount
              THEN dbEvent'.applied /\ masterRegistrationCount' = req.registrationCount
                     /\ config' = req.configuration
              ELSE ~dbEvent'.applied
                     /\ UNCHANGED <<masterRegistrationCount, config, serverInfo, clientInfo>>]_vars

\* A registration was ignored although a master is published and has registered: it
\* came from another master or did not carry a newer count.
C4_Witness ==
  /\ dbEvent.op = "RegisterMaster" /\ ~dbEvent.applied /\ dbEvent.reply = "Void"
  /\ serverInfo.master.id # 0
  /\ masterRegistrationCount = MaxRegCount

C5_IdsHandedOut == serverInfo.id < nextUID /\ clientInfo.id < nextUID

C6_LifetimeMonotone ==
  [][/\ serverInfo'.masterLifetime >= serverInfo.masterLifetime
     /\ DBRecruited => serverInfo'.masterLifetime > serverInfo.masterLifetime
     /\ DBRecruitFailed => serverInfo'.masterLifetime = serverInfo.masterLifetime
     /\ \A req \in DBRequests :
          clusterRegisterMaster(req) => serverInfo'.masterLifetime = serverInfo.masterLifetime]_vars

\* The second master was recruited after the first had registered.
C6_Witness ==
  /\ dbEvent.op = "Recruit" /\ dbEvent.applied
  /\ serverInfo.masterLifetime = 2
  /\ clientInfo.proxies # {}

\* The reply promises of the requests the controller holds
HeldPromises ==
  {id_worker[p].reply : p \in DOMAIN id_worker}
    \cup {outstandingRecruitmentRequests[i].reply : i \in DOMAIN outstandingRecruitmentRequests}
    \cup {outstandingStorageRequests[i].reply : i \in DOMAIN outstandingStorageRequests}
    \cup {recruitRetry[i].reply : i \in DOMAIN recruitRetry}
    \cup {requests[i] : i \in DOMAIN requests}
    \cup {requests_batch[i] : i \in DOMAIN requests_batch}
    \cup {polls[s].reply : s \in {x \in Poll : polls[x].waiting}}
    \cup {opens[s].reply : s \in {x \in DOMAIN opens : opens[x].waiting}}

\* C8, as stated: no reply promise is sent to twice, and the controller lets go of no
\* request (a stale RegisterWorker, a superseded registration, a request removed from a
\* queue) before it has answered it with a value or an error.
C8_ResolvedExactlyOnce ==
  /\ \A reply \in HeldPromises \cup unanswered : reply.sends <= 1
  /\ unanswered = {}

\* C8, amended: while the controller runs, no reply promise is sent to twice, a request
\* that is held has not been answered, and a request is let go of only after one value
\* or one error, except a RegisterWorker: a superseded registration is completed with
\* Never and a stale one is let go of without any send.
C8_ResolvedUnlessRegistration ==
  ccRunning =>
    /\ \A reply \in HeldPromises \cup unanswered : reply.sends <= 1
    /\ \A reply \in HeldPromises : reply.sends = 0
    /\ \A reply \in unanswered :
         /\ reply.kind = "RegisterWorker"
         /\ (reply.sends = 1 /\ reply.how = "never") \/ reply.sends = 0

\* A registration was superseded and a stale one ignored, and requests are queued at a
\* registered worker.
C8_Witness ==
  /\ unanswered = {Send(ReplyPromise("RegisterWorker"), "never"), ReplyPromise("RegisterWorker")}
  /\ id_worker # <<>>
  /\ Len(outstandingStorageRequests) + Len(outstandingRecruitmentRequests) = MaxReq - 1

\* C9: |statusHistory| <= |currentStatus| after every request and every periodic run.
C9_HistoryBound == Len(statusHistory) <= Cardinality(DOMAIN currentStatus)

\* The history was trimmed (changes were dropped from its front) and is full.
C9_Witness ==
  /\ fdRunning
  /\ Len(statusHistory) = Cardinality(DOMAIN currentStatus)
  /\ currentVersion > Len(statusHistory)
  /\ Len(statusHistory) >= 2

\* All tracked clients (two or more, each seen twice) sent their last request within one
\* request interval of each other, and none longer ago than FAILURE_MAX_DELAY.
StalledTogether ==
  /\ fdRunning
  /\ Cardinality(DOMAIN currentStatus) >= 2
  /\ \A a \in DOMAIN currentStatus :
       /\ currentStatus[a].penultimateRequestTime # 0
       /\ now - currentStatus[a].lastRequestTime <= FAILURE_MAX_DELAY
  /\ \A a, b \in DOMAIN currentStatus :
       currentStatus[a].lastRequestTime - currentStatus[b].lastRequestTime
         <= CLIENT_REQUEST_INTERVAL

\* C10: a run of the periodic task in such a state declares no client failed.
C10_CommonStallAbsorbed ==
  [][(StalledTogether /\ Periodic) => (DOMAIN currentStatus' = DOMAIN currentStatus)]_vars

\* The periodic task has just run while every client had been silent for longer than
\* CLIENT_REQUEST_INTERVAL + FAILURE_MIN_DELAY, and a remote client is still tracked.
C10_Witness ==
  /\ StalledTogether
  /\ periodically = now + CLIENT_REQUEST_INTERVAL
  /\ \E a \in DOMAIN currentStatus : a # LocalAddress
  /\ \A a \in DOMAIN currentStatus :
       now - currentStatus[a].lastRequestTime > CLIENT_REQUEST_INTERVAL + FAILURE_MIN_DELAY

\* A client that keeps sending one request per CLIENT_REQUEST_INTERVAL: it was seen twice,
\* its last two requests are at most one interval apart and the last is at most one
\* interval old.
StillResponding(a) ==
  /\ currentStatus[a].penultimateRequestTime # 0
  /\ now - currentStatus[a].lastRequestTime <= CLIENT_REQUEST_INTERVAL
  /\ currentStatus[a].lastRequestTime - currentStatus[a].penultimateRequestTime
       <= CLIENT_REQUEST_INTERVAL

\* Exactly one tracked client, s, has been silent for longer than CLIENT_REQUEST_INTERVAL +
\* FAILURE_MIN_DELAY, and the others, two or more, are still responding.
OneStalled(s) ==
  /\ fdRunning
  /\ s \in DOMAIN currentStatus
  /\ now - currentStatus[s].lastRequestTime > CLIENT_REQUEST_INTERVAL + FAILURE_MIN_DELAY
  /\ Cardinality(DOMAIN currentStatus \ {s}) >= 2
  /\ \A a \in DOMAIN currentStatus \ {s} : StillResponding(a)

\* C11, as claimed: a run of the periodic task with one stalled client, whichever its
\* address, declares the stalled client failed and nobody else.
C11_StalledDeclaredFailed ==
  [][\A s \in Address :
       (OneStalled(s) /\ Periodic) => (DOMAIN currentStatus' = DOMAIN currentStatus \ {s})]_vars

\* C11, amended: a run of the periodic task with one stalled client declares the stalled
\* client failed unless it is at the controller's own address, appending its failed=true
\* record and bumping the version, and declares none of the responding clients failed.
C11_RemoteStalledDeclaredFailed ==
  [][\A s \in Address :
       (OneStalled(s) /\ Periodic) =>
         IF s = LocalAddress
           THEN DOMAIN currentStatus' = DOMAIN currentStatus
           ELSE /\ DOMAIN currentStatus' = DOMAIN currentStatus \ {s}
                /\ currentVersion' = currentVersion + 1
                /\ statusHistory'[Len(statusHistory')] = [address |-> s, failed |-> TRUE]]_vars

\* The periodic task has just declared a client failed that was silent for no longer
\* than FAILURE_MAX_DELAY (time starts at 1), and two or more responding clients are
\* still tracked.
C11_Witness ==
  /\ fdRunning
  /\ now - 1 <= FAILURE_MAX_DELAY
  /\ periodically = now + CLIENT_REQUEST_INTERVAL
  /\ Len(statusHistory) > 0
  /\ statusHistory[Len(statusHistory)].failed
  /\ statusHistory[Len(statusHistory)].address \notin DOMAIN currentStatus
  /\ Cardinality(DOMAIN currentStatus) >= 2
  /\ \A a \in DOMAIN currentStatus : StillResponding(a)

\* The eligible workers of TLog fitness f or better: available, not excluded and not
\* NeverAssign.
EligibleUpTo(f) ==
  {p \in DOMAIN id_worker :
     /\ id_worker[p].interf.address \in available
     /\ id_worker[p].interf.address \notin conf.excluded
     /\ machineClassFitness(id_worker[p].processClass, "TLog") <= f
     /\ machineClassFitness(id_worker[p].processClass, "TLog") # NeverAssign}

\* The eligible workers of fitness f or better number at least tLogReplicationFactor and
\* contain a policy-satisfying set of a size from tLogReplicationFactor to desiredLogs.
TierSuffices(f) ==
  /\ Cardinality(EligibleUpTo(f)) >= conf.tLogReplicationFactor
  /\ \E S \in SUBSET EligibleUpTo(f) :
       /\ Cardinality(S) >= conf.tLogReplicationFactor
       /\ Cardinality(S) <= conf.desiredLogs
       /\ PolicyValidate(S, conf.tLogPolicy)

PlacementComputed ==
  /\ findResult.last.tlogs = "ok"
  /\ findResult.last.bestFitness \notin {InFitThrown, DefaultInDatacenterFitness}

\* The last call threw operation_failed exactly when it was made within the window and
\* computed a placement worse than the expected one; a call made after the window does
\* not throw operation_failed.
OperationFailedInWindowOnly ==
  /\ findResult.last.status = "operation_failed" <=>
       /\ PlacementComputed
       /\ findResult.at - startTime < WAIT_FOR_GOOD_RECRUITMENT_DELAY
       /\ WorseThanExpected(conf, findResult.last.across, findResult.last.bestFitness)
  /\ findResult.at - startTime >= WAIT_FOR_GOOD_RECRUITMENT_DELAY =>
       findResult.last.status # "operation_failed"

ClassCandidates(p) ==
  {id_worker[p].initialClass} \cup (IF p \in DOMAIN id_class THEN {id_class[p]} ELSE {})

\* The priority as claimed: CommandLine > DB > Auto > Unset.
ClaimedPriority(class) ==
  IF class.type = "unset" THEN 0
  ELSE IF class.source = "Auto" THEN 1
  ELSE IF class.source = "DB" THEN 2
  ELSE 3

\* C14, as claimed: the effective class of every registered worker is the candidate of
\* the highest priority, CommandLine > DB > Auto > Unset.
C14_CommandLineFirst ==
  \A p \in DOMAIN id_worker :
    /\ id_worker[p].processClass \in ClassCandidates(p)
    /\ \A class \in ClassCandidates(p) :
         ClaimedPriority(id_worker[p].processClass) >= ClaimedPriority(class)

\* C14, amended: the effective class of every registered worker is one of the candidates;
\* it is the stored class when that has source DB; otherwise it is the reported class
\* when that is not Unset; with Unset reported it is the stored class or Unset.
C14_DatabaseFirst ==
  \A p \in DOMAIN id_worker :
    LET info == id_worker[p]
        fromDB == p \in DOMAIN id_class /\ id_class[p].source = "DB"
    IN /\ info.processClass \in ClassCandidates(p)
       /\ info.initialClass.source = "CommandLine"
       /\ fromDB => info.processClass = id_class[p]
       /\ (~fromDB /\ info.initialClass.type # "unset") => info.processClass = info.initialClass

\* A worker that reported a class on its command line runs under a different class, the
\* one stored for it in the database with source DB.
C14_Witness ==
  \E p \in DOMAIN id_worker :
    /\ id_worker[p].initialClass.type # "unset"
    /\ p \in DOMAIN id_class
    /\ id_class[p].source = "DB"
    /\ id_class[p].type # id_worker[p].initialClass.type
    /\ id_worker[p].processClass = id_class[p]
    /\ id_worker[p].gen = 2

\* A RegisterWorker request for a registered processId that carries the stored interface
\* id and a generation lower than the stored one.
StaleRegistration(req) ==
  /\ req.wi.processId \in DOMAIN id_worker
  /\ id_worker[req.wi.processId].interf.id = req.wi.id
  /\ req.generation < id_worker[req.wi.processId].gen

\* C15: handling a stale RegisterWorker request leaves the registry (every entry's
\* classes, reply promise, generation, interface, watcher and reboots), the worker-list
\* journal, the outstanding queues and the better-master checker as they were.
C15_StaleRegistrationIgnored ==
  [][\A req \in ReqWorkers :
       (StaleRegistration(req) /\ registerWorker(req)) =>
         /\ id_worker' = id_worker
         /\ delta' = delta
         /\ outstandingRecruitmentRequests' = outstandingRecruitmentRequests
         /\ outstandingStorageRequests' = outstandingStorageRequests
         /\ betterMasterExistsChecker' = betterMasterExistsChecker]_vars

\* A stale registration was let go of unanswered while the entry holds generation 2 and
\* a storage request waits in the queue past its deadline, which a retry would answer.
C15_Witness ==
  /\ ReplyPromise("RegisterWorker") \in unanswered
  /\ 1 \in DOMAIN id_worker
  /\ id_worker[1].gen = 2
  /\ id_worker[1].reply = ReplyPromise("RegisterWorker")
  /\ Len(outstandingStorageRequests) > 0
  /\ outstandingStorageRequests[1].deadline < now

\* C16, as claimed: no step lowers the generation stored in an entry that exists before
\* and after the step.
C16_GenerationMonotone ==
  [][\A p \in DOMAIN id_worker \cap DOMAIN id_worker' :
       id_worker'[p].gen >= id_worker[p].gen]_vars

\* C16, amended: no step lowers the generation stored in an entry whose interface id
\* stays the same; the stored generation is lowered only together with a change of the
\* interface id.
C16_GenerationMonotonePerInterface ==
  [][\A p \in DOMAIN id_worker \cap DOMAIN id_worker' :
       id_worker'[p].interf.id = id_worker[p].interf.id =>
         id_worker'[p].gen >= id_worker[p].gen]_vars

\* The entry holds generation 2 under the reply of a registration that superseded
\* another, and a registration with a lower generation was turned away.
C16_Witness ==
  /\ 1 \in DOMAIN id_worker
  /\ id_worker[1].gen = 2
  /\ Send(ReplyPromise("RegisterWorker"), "never") \in unanswered
  /\ ReplyPromise("RegisterWorker") \in unanswered

\* The one watcher of every entry waits for the failure of the entry's current interface:
\* the watcher of a superseded interface is gone.
WatchesCurrentInterface ==
  \A p \in DOMAIN id_worker : id_worker[p].watcher = id_worker[p].interf.id

\* C17: when the watcher of an entry fires, the step completes the entry's reply with
\* Void (one value, so the promise is let go of answered), removes the entry and queues
\* the tombstone of the process; no other step removes an entry; and the only watcher of
\* an entry is that of its current interface.
C17_FailureRemovesEntry ==
  /\ []WatchesCurrentInterface
  /\ [][/\ \A p \in ReqProc :
            WorkerFailed(p) =>
              /\ p \notin DOMAIN id_worker'
              /\ id_worker[p].reply.sends = 0
              /\ unanswered' = unanswered
              /\ p \in DOMAIN delta'
              /\ delta'[p] = Tombstone
        /\ \A p \in DOMAIN id_worker \ DOMAIN id_worker' : WorkerFailed(p)]_vars

\* The watcher fired on an entry whose registration had superseded another: the entry
\* is gone and its tombstone waits for the journal.
C17_Witness ==
  /\ 1 \notin DOMAIN id_worker
  /\ 1 \in DOMAIN delta
  /\ delta[1] = Tombstone
  /\ Send(ReplyPromise("RegisterWorker"), "never") \in unanswered

\* The workers a RecruitStorage request does not rule out: available, and excluded by
\* none of excludeMachines, excludeDCs, excludeAddresses.
StorageEligible(req) ==
  {p \in DOMAIN id_worker :
     /\ id_worker[p].interf.address \in available
     /\ id_worker[p].interf.zoneId \notin req.excludeMachines
     /\ id_worker[p].interf.dcId \notin req.excludeDCs
     /\ id_worker[p].interf.address \notin req.excludeAddresses}

StorageFitness(p) == machineClassFitness(id_worker[p].processClass, "Storage")

\* C18: a returned worker is eligible; for a non-critical request it has Storage fitness
\* <= UnsetFit; for a critical request with no eligible worker of fitness <= UnsetFit it
\* has the least fitness among the eligible workers, better than NeverAssign; and the
\* call throws no_more_servers exactly when no eligible worker has fitness <= UnsetFit
\* and either the request is not critical or every eligible worker is NeverAssign.
C18_StorageWorker ==
  storageResult.called =>
    LET req == storageResult.req
        w == storageResult.worker
        eligible == StorageEligible(req)
        good == {p \in eligible : StorageFitness(p) <= UnsetFit}
    IN /\ w # 0 => w \in eligible
       /\ (w # 0 /\ ~req.criticalRecruitment) => StorageFitness(w) <= UnsetFit
       /\ (w # 0 /\ good # {}) => w \in good
       /\ (w # 0 /\ req.criticalRecruitment /\ good = {}) =>
            /\ StorageFitness(w) < NeverAssign
            /\ \A q \in eligible : StorageFitness(w) <= StorageFitness(q)
       /\ w = 0 <=>
            /\ good = {}
            /\ ~req.criticalRecruitment \/ \A q \in eligible : StorageFitness(q) = NeverAssign

\* A critical request was given a worker of fitness WorstFit although an eligible
\* worker with a smaller processId is NeverAssign, under exclusions of all three kinds.
C18_Witness ==
  /\ storageResult.called
  /\ storageResult.req.criticalRecruitment
  /\ storageResult.req.excludeMachines # {}
  /\ storageResult.req.excludeDCs # {}
  /\ storageResult.req.excludeAddresses # {}
  /\ storageResult.worker # 0
  /\ StorageFitness(storageResult.worker) = WorstFit
  /\ \E q \in StorageEligible(storageResult.req) :
       q < storageResult.worker /\ StorageFitness(q) = NeverAssign

\* A request waits in outstandingStorageRequests past its deadline.
PastDeadline ==
  \E i \in DOMAIN outstandingStorageRequests : outstandingStorageRequests[i].deadline < now

\* The replies of checkOutstandingStorageRequests: timed_out goes to the requests whose
\* deadline was before the time of the pass and to no other.
TimedOutOnlyPastDeadline ==
  \A r \in storageReplies : r.how = "timed_out" <=> r.deadline < now

\* A step in which checkOutstandingRequests runs to its end: a new worker registers,
\* a registered worker's endpoint becomes available, or the process classes are read.
QueuesChecked ==
  /\ \/ \E req \in ReqWorkers : req.wi.processId \notin DOMAIN id_worker /\ registerWorker(req)
     \/ \E p \in ReqProc : p \in DOMAIN id_worker /\ p \notin available /\ AvailabilityChange(p)
     \/ ReqProcessClassesRead
  /\ ccRunning'

\* C19, as claimed: a queued request is answered timed_out only past its deadline and is
\* answered with a worker only up to it, and a request that waits past its deadline is
\* eventually removed from the queue.
C19_EventuallyTimedOut ==
  /\ []TimedOutOnlyPastDeadline
  /\ PastDeadline ~> ~PastDeadline

\* C19, amended: a queued request is answered timed_out only past its deadline and is
\* answered with a worker only up to it, and every run of checkOutstandingRequests leaves
\* no request in the queue that is past its deadline.  Between such runs, which only a
\* registration, an availability change or a read of the process classes starts, a
\* request past its deadline stays in the queue.
C19_TimedOutAtNextCheck ==
  /\ []TimedOutOnlyPastDeadline
  /\ [][QueuesChecked => ~PastDeadline']_vars
  /\ [][PastDeadline /\ ~QueuesChecked => PastDeadline']_vars

\* One run of checkOutstandingStorageRequests has timed out a request past its deadline
\* and has answered with a worker a request whose deadline is the time of the run.
C19_Witness ==
  /\ \E r \in storageReplies : r.how = "timed_out" /\ r.deadline < now
  /\ \E r \in storageReplies : r.how = "worker" /\ r.deadline = now
  /\ outstandingStorageRequests = <<>>

\* What a round of clusterRecruitFromConfiguration does with a request after
\* findWorkersForConfiguration has returned or thrown: `queued` says whether the request
\* joins outstandingRecruitmentRequests, `waiting` is recruitRetry without the request.
RecruitHandled(entry, waiting, how, queued) ==
  \/ /\ how = "ok"
     /\ outstandingRecruitmentRequests' = outstandingRecruitmentRequests
     /\ recruitRetry' = waiting
  \/ /\ how \in {"no_more_servers", "operation_failed"}
     /\ queued
     /\ outstandingRecruitmentRequests' = Append(outstandingRecruitmentRequests, entry)
     /\ recruitRetry' = waiting
  \/ /\ how \in {"no_more_servers", "operation_failed"}
     /\ ~queued
     /\ outstandingRecruitmentRequests' = outstandingRecruitmentRequests
     /\ recruitRetry' = Append(waiting, entry)

\* recruitRetry without its i-th entry
OtherRetries(i) ==
  SubSeq(recruitRetry, 1, i - 1) \o SubSeq(recruitRetry, i + 1, Len(recruitRetry))

MasterFitness(p) == machineClassFitness(id_worker[p].processClass, "Master")

\* The cluster is fully recovered, its master, tlogs, proxies and resolvers are in the
\* registry, and a stable available worker is registered whose Master fitness is
\* strictly better than that of the master's worker.
BetterMasterRegistered ==
  /\ serverInfo.recoveryState = FULLY_RECOVERED
  /\ serverInfo.master.processId \in DOMAIN id_worker
  /\ serverInfo.logSystemConfig \cup serverInfo.client.proxies \cup serverInfo.resolvers
       \subseteq DOMAIN id_worker
  /\ \E w \in DOMAIN id_worker :
       /\ workerAvailable(id_worker[w], TRUE)
       /\ MasterFitness(w) < MasterFitness(serverInfo.master.processId)

\* The watchdog has asked a worker to be the master whose Master fitness is strictly
\* better than that of the published master's worker.
RecruitingBetterMaster ==
  /\ wdState = "recruiting"
  /\ {masterProcessId, serverInfo.master.processId} \subseteq DOMAIN id_worker
  /\ MasterFitness(masterProcessId) < MasterFitness(serverInfo.master.processId)

RetryPassRan ==
  \E rq \in {outstandingRecruitmentRequests}, sq \in {outstandingStorageRequests} :
    \E out \in (checkOutstandingRequests(rq, sq, {}, "ready"))' :
      /\ outstandingRecruitmentRequests' = out.rq
      /\ outstandingStorageRequests' = out.sq
      /\ storageReplies' = out.replies

\* registerWorker enters a process the registry does not hold (lines 1276-1287)
NewWorkerRegistered ==
  \E req \in ReqWorkers : req.wi.processId \notin DOMAIN id_worker /\ registerWorker(req)

\* registerWorker replaces the reply, generation, class or interface of an entry the
\* registry holds (lines 1289-1305)
WorkerReRegistered ==
  \E req \in ReqWorkers :
    /\ req.wi.processId \in DOMAIN id_worker
    /\ SupersedesRegistration(id_worker[req.wi.processId], req)
    /\ registerWorker(req)

\* The storage endpoint of a registered worker becomes available (lines 1002-1005)
WorkerBecameAvailable ==
  \E p \in ReqProc : p \in DOMAIN id_worker /\ p \notin available /\ AvailabilityChange(p)

\* C21, as claimed: every registration the registry accepts, new or not, every reload of
\* the process classes and every transition of a worker to available runs, in the same
\* step, one pass over outstandingRecruitmentRequests and outstandingStorageRequests.
C21_RetryAfterRegistryChange ==
  [][NewWorkerRegistered \/ WorkerReRegistered \/ ReqProcessClassesRead
       \/ WorkerBecameAvailable => RetryPassRan]_vars

\* C21 without the re-registrations: the registration of a new process, a reload of the
\* process classes and a transition of a worker to available each run the pass.
C21_RetryAfterNewRegistration ==
  [][NewWorkerRegistered \/ ReqProcessClassesRead \/ WorkerBecameAvailable
       => RetryPassRan]_vars

\* No GetServerDBInfo or OpenDatabase request was let go of unanswered or answered twice
LongPollsAnsweredOnce ==
  \A reply \in unanswered : reply.kind \notin {"GetServerDBInfo", "OpenDatabase"}

\* The step sends the reply of the request of subscriber s (line 872), of client s (904)
PollAnswered(s) ==
  \/ polls[s].waiting /\ ~polls'[s].waiting
  \/ GetServerDBInfoRequest(s) /\ ~polls'[s].waiting
OpenAnswered(s) ==
  \/ opens[s].waiting /\ ~opens'[s].waiting
  \/ clusterOpenDatabase(s) /\ ~opens'[s].waiting

\* What a reply carries is what the cell holds when the step is over
CarriesCellValue ==
  /\ \A s \in Poll : PollAnswered(s) => polls'[s].known = serverInfo'.id
  /\ \A s \in DOMAIN opens : OpenAnswered(s) => opens'[s].known = clientInfo'.id

\* A request whose known id is not the cell's is answered by the step that receives it;
\* one whose known id is the cell's waits
AnsweredAtOnceIffStale ==
  /\ \A s \in Poll :
       GetServerDBInfoRequest(s) => (PollAnswered(s) <=> polls[s].known # serverInfo.id)
  /\ \A s \in DOMAIN opens :
       clusterOpenDatabase(s) => (OpenAnswered(s) <=> opens[s].known # clientInfo.id)

\* A waiting request is answered only by a step that changes the cell or by its timeout
WaitsForChangeOrTimeout ==
  /\ \A s \in Poll :
       polls[s].waiting /\ PollAnswered(s) => serverInfo' # serverInfo \/ LongPollTimeout(s)
  /\ \A s \in DOMAIN opens :
       opens[s].waiting /\ OpenAnswered(s) => clientInfo' # clientInfo \/ OpenDatabaseTimeout(s)

\* C22: clusterGetServerInfo and clusterOpenDatabase answer each request once, with the
\* value the cell holds at the moment of the reply: in the step that receives the request
\* if its known id is not the cell's, and otherwise not before the cell changes or the
\* timeout fires, one of which happens in the end.
C22_OneReplyWithCurrentValue ==
  /\ []LongPollsAnsweredOnce
  /\ [][CarriesCellValue /\ AnsweredAtOnceIffStale /\ WaitsForChangeOrTimeout]_vars
  /\ \A s \in Poll : polls[s].waiting ~> ~polls[s].waiting
  /\ \A s \in 1..NumPolls : opens[s].waiting ~> ~opens[s].waiting

\* A request for ServerDBInfo and one for ClientDBInfo have waited and were answered by
\* a change of their cells, and the subscriber's next request waits again.
C22_Witness ==
  \E s \in Poll, c \in DOMAIN opens :
    /\ polls[s].last = "change"
    /\ polls[s].waiting
    /\ ~opens[c].waiting
    /\ opens[c].known = clientInfo.id
    /\ clientInfo.id # DefaultClientDBInfo.id

\* The elements of a sequence
Range(q) == {q[i] : i \in DOMAIN q}

\* Where the StatusRequests are that statusServer has not answered: while idle there are
\* none; while it sleeps, those of the batch and of the stream arrived after the last
\* call of clusterGetStatus was started; while clusterGetStatus runs, those of the batch
\* arrived before this call was started and those of the stream during it.
BatchHoldsEarlierRequests ==
  /\ \A r \in Range(requests_batch) \cup Range(requests) : r.sends = 0
  /\ statusState = "idle" => requests_batch = <<>> /\ requests = <<>>
  /\ statusState = "delay" =>
       /\ requests_batch # <<>>
       /\ \A r \in Range(requests_batch) \cup Range(requests) : r.call = statusCall
  /\ statusState = "getting" =>
       /\ requests_batch # <<>>
       /\ \A r \in Range(requests_batch) : r.call = 1 - statusCall
       /\ \A r \in Range(requests) : r.call = statusCall /\ r.running

\* No StatusRequest was let go of unanswered or answered twice
StatusAnsweredOnce == \A reply \in unanswered : reply.kind # "Status"

\* A result of clusterGetStatus goes once to each request of the batch and to no request
\* of the stream, which are all kept for the next batch.
ResultGoesToBatch ==
  \A how \in {"value", "error"} :
    StatusResult(how) =>
      /\ unanswered' = SendBatch(unanswered, requests_batch, how)
      /\ requests_batch' \o requests' = requests

\* clusterGetStatus is started exactly when a batch is closed, and a StatusRequest leaves
\* statusServer only with the result of the call made for its batch.
OneCallPerBatch ==
  /\ statusCall' # statusCall <=> statusState # "getting" /\ statusState' = "getting"
  /\ (Range(requests_batch) \cup Range(requests))
       \ (Range(requests_batch') \cup Range(requests')) # {}
       => statusState = "getting" /\ (\E how \in {"value", "error"} : StatusResult(how))

\* C23: statusServer calls clusterGetStatus once per batch; the requests of the batch,
\* which are those that arrived before the call was started, each get its result, value
\* or error, once; a request that arrives during the call gets the result of the next
\* call; no request is answered twice or dropped.
C23_BatchGetsOneResult ==
  /\ []BatchHoldsEarlierRequests
  /\ []StatusAnsweredOnce
  /\ [][ResultGoesToBatch /\ OneCallPerBatch]_vars

\* clusterGetStatus runs for a batch of two, the request that started it having arrived
\* during the call before and the other while statusServer slept, and a third request
\* has arrived during this call.
C23_Witness ==
  /\ statusState = "getting"
  /\ Len(requests_batch) = 2
  /\ requests_batch[1].running
  /\ ~requests_batch[2].running
  /\ Len(requests) = 1

\* The keys under workerListKeys are those of the registered processes
WorkerListCurrent == workerList = DOMAIN id_worker

\* The updater holds a batch exactly while it writes one
OnePendingBatch == updaterState = "write" <=> updaterDelta # <<>>

\* C24: if commits succeed in the end and the registry stops changing, then from some
\* point on the processIds stored under workerListKeys are exactly those of id_worker,
\* whatever registrations, re-registrations, failures and commit errors came before
\* and whatever the keyspace held at the start.
C24_WorkerListFollowsRegistry ==
  /\ []OnePendingBatch
  /\ (<>[][id_worker' = id_worker]_vars) => <>[]WorkerListCurrent

\* A process has failed and another has registered again with a new interface while a
\* batch was being written: the stored list still names the failed process and the
\* next batch waits in delta.
C24_Witness ==
  /\ updaterState = "write"
  /\ DOMAIN id_worker = {2}
  /\ id_worker[2].interf.id = 2
  /\ workerList = {1}
  /\ 1 \in DOMAIN delta /\ delta[1] = Tombstone
  /\ 2 \in DOMAIN updaterDelta

(***************************************************************************)
(* C25: the comparators as orders.                                         *)
(***************************************************************************)
Compared == placeCall.fn \in {"InDatacenterFitness", "AcrossDatacenterFitness"}

\* Exactly one of a < b, a == b and b < a
Trichotomy(i, j) ==
  /\ placeCall.less[i][j] \/ placeCall.equal[i][j] \/ placeCall.less[j][i]
  /\ ~(placeCall.less[i][j] /\ placeCall.equal[i][j])
  /\ ~(placeCall.less[j][i] /\ placeCall.equal[i][j])
  /\ ~(placeCall.less[i][j] /\ placeCall.less[j][i])

Transitive ==
  \A i \in 1..3, j \in 1..3, k \in 1..3 :
    placeCall.less[i][j] /\ placeCall.less[j][k] => placeCall.less[i][k]

\* What InDatacenterFitness::operator< reads of a value
InFitKey(f) ==
  <<Max(f.resolverFit, f.proxyFit), Min(f.resolverFit, f.proxyFit), f.proxyCount, f.resolverCount>>

\* Exactly one of a < b, b < a and "a and b have the same key"; equal values have the
\* same key
TrichotomyOfKeys(i, j) ==
  LET same == InFitKey(placeCall.args[i]) = InFitKey(placeCall.args[j])
  IN /\ placeCall.less[i][j] \/ same \/ placeCall.less[j][i]
     /\ ~(placeCall.less[i][j] /\ same)
     /\ ~(placeCall.less[j][i] /\ same)
     /\ ~(placeCall.less[i][j] /\ placeCall.less[j][i])
     /\ placeCall.equal[i][j] => same

\* C25, as claimed: for any two values a and b of the same comparator exactly one of
\* a < b, a == b, b < a holds, and < is transitive.
C25_TotalOrders ==
  Compared => Transitive /\ \A i \in 1..3, j \in 1..3 : Trichotomy(i, j)

\* C25, amended: AcrossDatacenterFitness is a total order consistent with its equality;
\* InDatacenterFitness::operator< is transitive and a total order of the keys
\* (max fit, min fit, proxyCount, resolverCount), exactly one of a < b, b < a and
\* key(a) = key(b) holding, and a == b implies key(a) = key(b) but not the reverse.
C25_OrdersOfKeys ==
  /\ placeCall.fn = "AcrossDatacenterFitness" =>
       Transitive /\ \A i \in 1..3, j \in 1..3 : Trichotomy(i, j)
  /\ placeCall.fn = "InDatacenterFitness" =>
       Transitive /\ \A i \in 1..3, j \in 1..3 : TrichotomyOfKeys(i, j)

\* Two InDatacenterFitness values with proxyFit and resolverFit swapped, neither less
\* than nor equal to the other, both less than a third
C25_Witness ==
  /\ placeCall.fn = "InDatacenterFitness"
  /\ placeCall.args[1].proxyFit = placeCall.args[2].resolverFit
  /\ placeCall.args[1].resolverFit = placeCall.args[2].proxyFit
  /\ ~placeCall.less[1][2] /\ ~placeCall.less[2][1] /\ ~placeCall.equal[1][2]
  /\ placeCall.less[1][3] /\ placeCall.less[2][3]

(***************************************************************************)
(* C26: the ids of the clientInfo cell.                                    *)
(***************************************************************************)
\* The two values differ in proxies, clientTxnInfoSampleRate or clientTxnInfoSizeLimit
ClientValueDiffers(a, b) ==
  \/ a.proxies # b.proxies
  \/ a.clientTxnInfoSampleRate # b.clientTxnInfoSampleRate
  \/ a.clientTxnInfoSizeLimit # b.clientTxnInfoSizeLimit

\* The cell is set to a value under an id that no value had before
FreshClientId == clientInfo'.id # clientInfo.id /\ clientInfo'.id = nextUID

\* C26, as claimed: a step publishes a ClientDBInfo under a fresh id if and only if the
\* new value differs from the previous one in proxies, clientTxnInfoSampleRate or
\* clientTxnInfoSizeLimit; a value identical in those fields keeps its id, also when
\* monitorClientTxnInfoConfigs reads again after an error.
C26_FreshIdIffChanged ==
  [][/\ clientInfo' # clientInfo => FreshClientId
     /\ FreshClientId <=> ClientValueDiffers(clientInfo, clientInfo')]_vars

\* The half of C26 that holds: a value that differs is published under a fresh id, and
\* clusterRegisterMaster publishes a fresh id only with new proxies.
C26_ChangedValueGetsFreshId ==
  [][/\ clientInfo' # clientInfo => FreshClientId
     /\ ClientValueDiffers(clientInfo, clientInfo') => FreshClientId
     /\ dbEvent'.op = "RegisterMaster" /\ FreshClientId =>
          clientInfo'.proxies # clientInfo.proxies]_vars

(***************************************************************************)
(* C27: what betterMasterExists answers once the database is recovered.    *)
(***************************************************************************)
BetterCalled == placeCall.fn = "betterMasterExists"

FullyRecovered == serverInfo.recoveryState = FULLY_RECOVERED

\* The master and every current tlog, proxy and resolver are in the registry
HoldersRegistered ==
  /\ serverInfo.master.processId \in DOMAIN id_worker
  /\ serverInfo.logSystemConfig \subseteq DOMAIN id_worker
  /\ serverInfo.client.proxies \subseteq DOMAIN id_worker
  /\ serverInfo.resolvers \subseteq DOMAIN id_worker

\* The fitness of the current placement, all holders being registered
CurrentMasterFit ==
  machineClassFitness(id_worker[serverInfo.master.processId].processClass, "Master")
CurrentAcrossFit ==
  AcrossDatacenterFitness(
    RoleFitness({id_worker[p].processClass : p \in serverInfo.logSystemConfig}, "TLog"),
    Cardinality(serverInfo.logSystemConfig))
CurrentInFit ==
  InDatacenterFitness(
    RoleFitness({id_worker[p].processClass : p \in serverInfo.client.proxies}, "Proxy"),
    RoleFitness({id_worker[p].processClass : p \in serverInfo.resolvers}, "Resolver"),
    Cardinality(serverInfo.client.proxies), Cardinality(serverInfo.resolvers))

\* The new placement is strictly better than the current one in one of the three
\* and worse in none
StrictlyBetterPlacement(call) ==
  /\ call.compared
  /\ ~(CurrentMasterFit < call.newMasterFit)
  /\ ~AcrossFitLess(CurrentAcrossFit, call.newAcrossFit)
  /\ ~InFitLess(CurrentInFit, call.newInFit)
  /\ \/ call.newMasterFit < CurrentMasterFit
     \/ AcrossFitLess(call.newAcrossFit, CurrentAcrossFit)
     \/ InFitLess(call.newInFit, CurrentInFit)

TrueIffStrictlyBetter ==
  BetterCalled /\ FullyRecovered =>
    (placeCall.call.result = "true"
       <=> HoldersRegistered /\ StrictlyBetterPlacement(placeCall.call))

\* C27, as claimed: with the database fully recovered betterMasterExists returns true if
\* and only if all current role holders are registered and the new placement is
\* strictly better in one of master fitness, AcrossDatacenterFitness and
\* InDatacenterFitness and worse in none; it returns false whenever a holder is missing.
C27_BetterMasterExists ==
  /\ TrueIffStrictlyBetter
  /\ BetterCalled /\ FullyRecovered /\ ~HoldersRegistered => placeCall.call.result = "false"

\* C27, amended: with the database fully recovered betterMasterExists returns true if
\* and only if all current role holders are registered and the new placement is
\* strictly better in one of the three and worse in none.  With a holder missing it
\* never returns true: it returns false, or, the master being registered, it raises
\* no_more_servers out of getMasterWorker or of the placement of the new tlogs before
\* it comes to look the missing holder up.
C27_NeverTrueWithMissingHolder ==
  /\ TrueIffStrictlyBetter
  /\ BetterCalled /\ FullyRecovered /\ ~HoldersRegistered =>
       \/ placeCall.call.result = "false"
       \/ /\ placeCall.call.result = "no_more_servers"
          /\ serverInfo.master.processId \in DOMAIN id_worker
          /\ ~placeCall.call.compared

\* betterMasterExists has returned true for proxies and resolvers that are better
\* placed, the master being as good as the current one
C27_Witness ==
  /\ BetterCalled /\ FullyRecovered /\ HoldersRegistered
  /\ placeCall.call.result = "true"
  /\ placeCall.call.newMasterFit = CurrentMasterFit
  /\ InFitLess(placeCall.call.newInFit, CurrentInFit)

(***************************************************************************)
(* C28: the workers getWorkersForRoleInDatacenter returns.                 *)
(***************************************************************************)
WorkersCalled == placeCall.fn = "getWorkersForRoleInDatacenter"

\* The fitness of worker p for the role of the call
CallFitness(p) == machineClassFitness(id_worker[p].processClass, placeCall.role)

\* At most `amount` workers, all of the datacenter asked for, none of them minWorker
FewInDatacenterNotMinWorker ==
  /\ Cardinality(placeCall.result.workers) <= placeCall.amount
  /\ \A p \in placeCall.result.workers :
       /\ id_worker[p].interf.dcId = placeCall.dcId
       /\ id_worker[p].interf.id # id_worker[placeCall.minWorker.worker].interf.id

\* C28, as claimed: getWorkersForRoleInDatacenter returns at most n workers, all in the
\* given datacenter, none equal to minWorker, each with a (fitness, used) pair strictly
\* smaller than the (fitness, used) of minWorker.
C28_StrictlyBetterThanMinWorker ==
  WorkersCalled =>
    /\ FewInDatacenterNotMinWorker
    /\ \A p \in placeCall.result.workers :
         KeyLess(CallFitness(p), placeCall.id_used[p],
                 placeCall.minWorker.fitness, placeCall.minWorker.used)

\* C28, amended: getWorkersForRoleInDatacenter returns at most n workers, all in the
\* given datacenter, none equal to minWorker, each with a (fitness, used) pair not
\* greater than the (fitness, used) minWorker was picked with; minWorker's counter
\* having been incremented by that pick, the pair is strictly smaller than minWorker's
\* fitness and present counter.  The call increments the counter of each worker it
\* returns by one.
C28_NotWorseThanMinWorker ==
  WorkersCalled =>
    /\ FewInDatacenterNotMinWorker
    /\ \A p \in placeCall.result.workers :
         /\ ~KeyLess(placeCall.minWorker.fitness, placeCall.minWorker.used,
                     CallFitness(p), placeCall.id_used[p])
         /\ KeyLess(CallFitness(p), placeCall.id_used[p],
                    placeCall.minWorker.fitness, placeCall.id_used[placeCall.minWorker.worker])
    /\ \A p \in ProcId :
         placeCall.result.id_used[p] =
           placeCall.id_used[p] + (IF p \in placeCall.result.workers THEN 1 ELSE 0)

\* Two more proxies were asked for and one was found: as fit and as little used as the
\* first proxy was when it was picked
C28_Witness ==
  /\ WorkersCalled
  /\ placeCall.role = "Proxy" /\ placeCall.amount = 2
  /\ \E p \in ProcId :
       /\ placeCall.result.workers = {p}
       /\ CallFitness(p) = placeCall.minWorker.fitness
       /\ placeCall.id_used[p] = placeCall.minWorker.used

(***************************************************************************)
(* C29: the worker getWorkerForRoleInDatacenter returns.                   *)
(***************************************************************************)
WorkerCalled == placeCall.fn = "getWorkerForRoleInDatacenter"

\* The available, non-excluded workers that may hold the role, inside the datacenter
\* asked for or outside of it
EligibleForRole(inside) ==
  {p \in DOMAIN id_worker :
     /\ id_worker[p].interf.address \in available
     /\ placeCall.checkStable => id_worker[p].reboots < 2
     /\ id_worker[p].interf.address \notin conf.excluded
     /\ CallFitness(p) # NeverAssign
     /\ (id_worker[p].interf.dcId = placeCall.dcId) <=> inside}

\* w is one of S and no worker of S has a smaller (fitness, used)
LeastOf(S, w) ==
  /\ w \in S
  /\ \A q \in S : ~KeyLess(CallFitness(q), placeCall.id_used[q],
                            CallFitness(w), placeCall.id_used[w])

\* C29: getWorkerForRoleInDatacenter returns an eligible worker of the datacenter asked
\* for with the least (fitness, used) among them and increments its used count by one;
\* only when that datacenter has none does it return the least eligible worker of the
\* other datacenters; it throws no_more_servers only when there is none at all.
C29_LeastWorkerOfDatacenter ==
  WorkerCalled =>
    LET w == placeCall.info.worker
    IN /\ placeCall.thrown <=> EligibleForRole(TRUE) \cup EligibleForRole(FALSE) = {}
       /\ ~placeCall.thrown =>
            /\ LeastOf(IF EligibleForRole(TRUE) # {} THEN EligibleForRole(TRUE)
                       ELSE EligibleForRole(FALSE), w)
            /\ placeCall.info.fitness = CallFitness(w)
            /\ placeCall.info.used = placeCall.id_used[w]
            /\ \A p \in ProcId :
                 placeCall.info.id_used[p] = placeCall.id_used[p] + (IF p = w THEN 1 ELSE 0)

\* A worker of the datacenter asked for was returned although a fitter one is available
\* elsewhere, and it was the less used of two equally fit ones
C29_Witness ==
  /\ WorkerCalled /\ ~placeCall.thrown
  /\ id_worker[placeCall.info.worker].interf.dcId = placeCall.dcId
  /\ \E q \in EligibleForRole(FALSE) : CallFitness(q) < placeCall.info.fitness
  /\ \E q \in EligibleForRole(TRUE) :
       /\ CallFitness(q) = placeCall.info.fitness
       /\ placeCall.id_used[q] > placeCall.info.used

(***************************************************************************)
(* C30: the worker getMasterWorker returns.                                *)
(***************************************************************************)
MasterCalled == placeCall.fn = "getMasterWorker"

\* The workers that are available, stable if asked for, and may be master
MasterEligible ==
  {p \in DOMAIN id_worker :
     /\ id_worker[p].interf.address \in available
     /\ placeCall.checkStable => id_worker[p].reboots < 2
     /\ MasterFitness(p) # NeverAssign}

\* C30: getMasterWorker( checkStable ) returns a worker that is available (with
\* reboots < 2 when checkStable is set) whose Master fitness is not NeverAssign and is
\* the least among such workers; it throws no_more_servers exactly when there is none.
C30_LeastMasterFitness ==
  MasterCalled =>
    /\ placeCall.thrown <=> MasterEligible = {}
    /\ ~placeCall.thrown =>
         /\ placeCall.worker \in MasterEligible
         /\ \A q \in MasterEligible : MasterFitness(placeCall.worker) <= MasterFitness(q)

\* With checkStable set a worker was returned although a fitter one is available, that
\* one having rebooted twice
C30_Witness ==
  /\ MasterCalled /\ placeCall.checkStable /\ ~placeCall.thrown
  /\ \E q \in DOMAIN id_worker :
       /\ id_worker[q].interf.address \in available
       /\ id_worker[q].reboots >= 2
       /\ MasterFitness(q) < MasterFitness(placeCall.worker)

(***************************************************************************)
(* C31: the reaction time the watched master is held to.                   *)
(***************************************************************************)
\* The watchdog is in the loop of line 809
Watching == wdState = "watching"

\* C31: whenever the watchdog is watching a master and masterRegistrationCount is
\* above zero, the failure detection in force uses MASTER_FAILURE_REACTION_TIME; the
\* during-recovery timeout is in force only while masterRegistrationCount is zero.
C31_ReactionTimeOnceRegistered ==
  Watching =>
    /\ masterRegistrationCount > 0 => waitFailureClient = "MASTER_FAILURE_REACTION_TIME"
    /\ waitFailureClient = "MASTER_FAILURE_SLOPE_DURING_RECOVERY" => masterRegistrationCount = 0

\* What does hold: the reaction time in force is the one of the registration count as
\* it was when serverInfo changed last or the loop was entered, so it is the sensitive
\* one as soon as a registration has been accepted before the loop was entered or has
\* changed a published field.
C31_ReactionTimeAsOfLastChange ==
  [][/\ Watching' /\ serverInfo' # serverInfo
        => waitFailureClient' = ReactionTime(masterRegistrationCount')
     /\ Watching /\ Watching' /\ serverInfo' = serverInfo
        => waitFailureClient' = waitFailureClient
     /\ ~Watching /\ Watching'
        => waitFailureClient' = ReactionTime(masterRegistrationCount)]_vars

(***************************************************************************)
(* C32: no recruitment of a poor master while a good one may still turn up. *)
(***************************************************************************)
\* The controller has been up for less than WAIT_FOR_GOOD_RECRUITMENT_DELAY
WithinRecruitmentDelay == now - startTime < WAIT_FOR_GOOD_RECRUITMENT_DELAY

\* getMasterWorker() has a worker to return and it is worse than expected
PoorCandidate ==
  /\ getMasterWorker(FALSE) # {}
  /\ \A p \in getMasterWorker(FALSE) : MasterFitness(p) > EXPECTED_MASTER_FITNESS

\* C32: while now - startTime < WAIT_FOR_GOOD_RECRUITMENT_DELAY the watchdog never
\* sends RecruitMasterRequest to a candidate whose Master fitness is worse than
\* EXPECTED_MASTER_FITNESS; it waits ATTEMPT_RECRUITMENT_DELAY and picks again, and
\* neither the published ServerDBInfo nor masterProcessId changes.
C32_NoPoorMasterWithinDelay ==
  [][WithinRecruitmentDelay =>
       /\ wdState = "pick" /\ wdState' = "recruiting"
            => MasterFitness(masterProcessId') <= EXPECTED_MASTER_FITNESS
       /\ wdState = "pick" /\ wdState' # "pick" /\ PoorCandidate
            => /\ wdState' = "retry"
               /\ serverInfo' = serverInfo
               /\ masterProcessId' = masterProcessId
       /\ wdState = "retry" /\ wdState' # "retry"
            => /\ wdState' = "pick"
               /\ serverInfo' = serverInfo
               /\ masterProcessId' = masterProcessId]_vars

\* Within the delay the watchdog has turned a poor candidate down and waits
C32_Witness ==
  /\ WithinRecruitmentDelay /\ PoorCandidate
  /\ wdState = "retry" /\ dbEvent.op = "Pick"

(***************************************************************************)
(* C33: one better-master check at a time, one forced failure per master.  *)
(***************************************************************************)
\* The step is the body of doCheckOutstandingMasterRequests after its delay
CheckRuns ==
  betterMasterExistsChecker = "pending" /\ betterMasterExistsChecker' = "ready"

\* The step recruits a master: line 793 replaces the promise
MasterRecruited == serverInfo'.masterLifetime # serverInfo.masterLifetime

\* C33: at most one better-master check is pending at any time: a call of
\* checkOutstandingMasterRequests made while a check is pending starts no new check
\* (the pending one stays until it has run), a check is started only when none is
\* pending, and forceMasterFailure is signalled at most once per master incarnation:
\* it is sent only while unset, and is unset again only by the next recruitment.
C33_OneCheckOneSignal ==
  [][/\ betterMasterExistsChecker \in {"ready", "pending"}
     /\ betterMasterExistsChecker = "pending"
          => \/ betterMasterExistsChecker' = "pending"
             \/ CheckRuns /\ dbEvent'.op = "BetterMasterCheck"
     /\ betterMasterExistsChecker' = "pending" /\ betterMasterExistsChecker # "pending"
          => betterMasterExistsChecker = "ready"
     /\ CheckRuns /\ dbEvent'.changed => ~forceMasterFailure /\ forceMasterFailure'
     /\ ~forceMasterFailure /\ forceMasterFailure' => CheckRuns /\ dbEvent'.changed
     /\ forceMasterFailure /\ ~forceMasterFailure' => MasterRecruited]_vars

\* A check found a better master while forceMasterFailure was set already, and sent
\* nothing
C33_Witness ==
  /\ dbEvent.op = "BetterMasterCheck" /\ dbEvent.applied /\ ~dbEvent.changed
  /\ forceMasterFailure /\ betterMasterExistsChecker = "ready"

(***************************************************************************)
(* C34: reboots, the counter of rebootAndCheck actors in flight.           *)
(***************************************************************************)
\* C34: for every registered worker, reboots equals the number of rebootAndCheck
\* actors for its processId that are sleeping, and is therefore never negative, under
\* any interleaving of availability changes, worker failures and re-registrations.
C34_RebootsCountsSleepers ==
  \A p \in DOMAIN id_worker :
    id_worker[p].reboots = rebooting[p] /\ id_worker[p].reboots >= 0

\* What does hold: reboots never exceeds the number of sleeping actors, and falls
\* short of it only by actors that were started for an entry erased since.
C34_RebootsAtMostSleepers ==
  \A p \in DOMAIN id_worker :
    /\ id_worker[p].reboots <= rebooting[p]
    /\ id_worker[p].reboots >= -MaxReboots

(***************************************************************************)
(* C35: the failure detection server and its own address.                  *)
(***************************************************************************)
\* The step is the periodic task of lines 1105-1146
PeriodicRuns == periodically' # periodically

\* The change (address failed) that declares the local address failed
LocalDeclaredFailed == [address |-> LocalAddress, failed |-> TRUE]

\* C35: the failure detection server never declares its own address failed: the
\* periodic task never evicts the entry of the local address and never appends a
\* failed record for it, however long ago that address sent its last request.
C35_NeverDeclaresItselfFailed ==
  [][PeriodicRuns =>
       /\ LocalAddress \in DOMAIN currentStatus
            => /\ LocalAddress \in DOMAIN currentStatus'
               /\ currentStatus'[LocalAddress] = currentStatus[LocalAddress]
       /\ \A i \in 1..Len(statusHistory') :
            statusHistory'[i] = LocalDeclaredFailed
              => \E j \in 1..Len(statusHistory) : statusHistory[j] = LocalDeclaredFailed
       /\ LocalAddress \in UpSet(currentStatus) => LocalAddress \in UpSet(currentStatus')]_vars

\* The periodic task has just run, the local address is still reported up, and its
\* last request is older than any other address is allowed
C35_Witness ==
  /\ fdRunning
  /\ periodically = now + CLIENT_REQUEST_INTERVAL
  /\ LocalAddress \in UpSet(currentStatus)
  /\ now - currentStatus[LocalAddress].lastRequestTime
       > PivotDelay(currentStatus, now) * 2 + CLIENT_REQUEST_INTERVAL + FAILURE_MIN_DELAY

(***************************************************************************)
(* C39: what currentStatus holds.                                          *)
(***************************************************************************)
\* C39: every entry of currentStatus has status not failed: an address is absent from
\* currentStatus or present with failed = false, after any sequence of requests
\* (a first request from a new address whose senderStatus is failed included) and
\* periodic evictions, so a reply that sends everything lists no address as failed.
C39_NoFailedEntry ==
  /\ \A a \in DOMAIN currentStatus : ~currentStatus[a].failed
  /\ \A i \in 1..Len(AllChanges(currentStatus)) : ~AllChanges(currentStatus)[i].failed

\* What does hold: an entry is failed only as long as its address has reported nothing
\* but failed since it was entered, and such an entry never got a record in statusAt:
\* the address is not in the up set of the current version.
C39_FailedEntryNeverUp ==
  \A a \in DOMAIN currentStatus :
    currentStatus[a].failed =>
      /\ a # LocalAddress
      /\ a \notin statusAt[currentVersion + 1]

(***************************************************************************)
(* C36: the effective class and the override rule.                         *)
(***************************************************************************)
\* C36: after every RegisterWorker and every reload of the process classes, the
\* effective processClass of each registered worker is the override rule applied to
\* its current data: the class stored for its processId if that class has source DB
\* or the worker's initialClass is unset, and its initialClass otherwise; so a
\* re-registration never leaves processClass different from what the next reload
\* would compute from the same stored classes.
C36_ClassIsOverrideRule ==
  \A p \in DOMAIN id_worker :
    id_worker[p].processClass = ClassFromDatabase(id_class, p, id_worker[p].initialClass)

\* What does hold: the rule is met by every worker whose entry was made or reloaded
\* after its last re-registration, and a worker that differs has an effective class
\* that is unset or that a reload would replace by its initialClass or stored class.
C36_RuleAfterFirstRegistrationAndReload ==
  [][/\ \A p \in DOMAIN id_worker' \ DOMAIN id_worker :
          id_worker'[p].processClass
            = ClassFromDatabase(id_class', p, id_worker'[p].initialClass)
     /\ id_class' # id_class \/ gotProcessClasses' # gotProcessClasses
          => \A p \in DOMAIN id_worker' :
               id_worker'[p].processClass
                 = ClassFromDatabase(id_class', p, id_worker'[p].initialClass)]_vars

(***************************************************************************)
(* C37: the ClientDBInfo inside the published ServerDBInfo.                *)
(***************************************************************************)
\* C37: the client information embedded in the published ServerDBInfo always equals
\* the current value of the clientInfo cell (same id, proxies, sample rate and size
\* limit), across master recruits, master registrations and updates of the client
\* transaction sampling keys.
C37_EmbeddedClientInfoIsCurrent == serverInfo.client = clientInfo

\* What does hold: the two are set equal by every registration that brings new
\* proxies, and the embedded value changes in no other way than that or by being
\* reset with a recruitment.
C37_EmbeddedClientInfoSetWithProxies ==
  [][/\ clientInfo'.proxies # clientInfo.proxies => serverInfo'.client = clientInfo'
     /\ serverInfo'.client # serverInfo.client
          => \/ serverInfo'.client = clientInfo' /\ clientInfo'.proxies # clientInfo.proxies
             \/ serverInfo'.client = DefaultClientDBInfo
                  /\ serverInfo'.masterLifetime # serverInfo.masterLifetime]_vars

(***************************************************************************)
(* C38: the process reserved for the master.                               *)
(***************************************************************************)
\* betterMasterExists gets as far as line 638, id_used[masterProcessId]++
BetterReserves == serverInfo.master.processId \in DOMAIN id_worker

\* C38: whenever betterMasterExists (or findWorkersForConfiguration) reserves the
\* master's slot through id_used[masterProcessId], masterProcessId is the processId of
\* the master in the published ServerDBInfo: masterProcessId changes only together
\* with a successful recruitment, so a failed or pending RecruitMasterRequest never
\* makes the reservation point at a process that is not the published master.
C38_ReservedIsPublishedMaster ==
  [][/\ masterProcessId' # masterProcessId => MasterRecruited
     /\ CheckRuns /\ BetterReserves => masterProcessId = serverInfo.master.processId]_vars

\* What does hold: masterProcessId is the process the watchdog asked last, so it is
\* the published master's from the reply to that request until the next request.
C38_ReservedIsAskedLast ==
  /\ wdState \in {"spin", "watching"} => masterProcessId = serverInfo.master.processId
  /\ wdState = "recruiting" => masterProcessId \in DOMAIN id_worker

(***************************************************************************)
(* C40: storage recruitment waits for the process classes.                 *)
(***************************************************************************)
\* How often the queue q holds the entry x
StorageCount(q, x) == Cardinality({j \in DOMAIN q : q[j] = x})

\* A RecruitStorageRequest that is not critical arrives
FreshNonCritical == clusterRecruitStorage(RecruitStorageRequest(FALSE, {}, {}, {}))

\* The request that arrived in this step has been queued
FreshQueued ==
  /\ Len(outstandingStorageRequests') = Len(outstandingStorageRequests) + 1
  /\ ~outstandingStorageRequests'[Len(outstandingStorageRequests')].req.criticalRecruitment

\* The step is the first load of the process classes, and the controller goes on
FirstLoad == ~gotProcessClasses /\ gotProcessClasses' /\ ccRunning'

\* After the step the queue holds no request that is within its deadline and that
\* getStorageWorker has a worker for
NoneLeftThatCanBeSatisfied ==
  (\A i \in DOMAIN outstandingStorageRequests :
     \/ Expired(outstandingStorageRequests[i].deadline, now)
     \/ getStorageWorker(outstandingStorageRequests[i].req) = 0)'

\* C40, as claimed: no RecruitStorage request that is not critical, fresh or queued, is
\* answered with a worker before the process classes have been loaded for the first
\* time; until then such requests stay queued, and the first load runs a retry pass
\* that answers those that can be satisfied.
C40_QueuedUntilFirstLoad ==
  [][/\ ~gotProcessClasses' =>
          /\ FreshNonCritical => FreshQueued
          /\ \A i \in DOMAIN outstandingStorageRequests :
               ~outstandingStorageRequests[i].req.criticalRecruitment
                 => StorageCount(outstandingStorageRequests', outstandingStorageRequests[i])
                      >= StorageCount(outstandingStorageRequests, outstandingStorageRequests[i])
     /\ FirstLoad => RetryPassRan /\ NoneLeftThatCanBeSatisfied]_vars

\* C40, amended: before the first load a request that is not critical is never
\* answered with a worker; it is queued and leaves the queue only answered timed_out,
\* in a pass made after its deadline; the first load runs a retry pass that answers
\* those that can be satisfied.
C40_NoWorkerUntilFirstLoad ==
  [][/\ ~gotProcessClasses' =>
          /\ FreshNonCritical => FreshQueued
          /\ \A i \in DOMAIN outstandingStorageRequests :
               /\ ~outstandingStorageRequests[i].req.criticalRecruitment
               /\ StorageCount(outstandingStorageRequests', outstandingStorageRequests[i])
                    < StorageCount(outstandingStorageRequests, outstandingStorageRequests[i])
               => /\ Expired(outstandingStorageRequests[i].deadline, now)
                  /\ StorageReply(outstandingStorageRequests[i].deadline, "timed_out")
                       \in storageReplies'
     /\ FirstLoad => RetryPassRan /\ NoneLeftThatCanBeSatisfied]_vars

\* The process classes are not loaded, and a request that is not critical waits in the
\* queue within its deadline although getStorageWorker has a worker for it
C40_Witness ==
  /\ ~gotProcessClasses
  /\ \E i \in DOMAIN outstandingStorageRequests :
       /\ ~outstandingStorageRequests[i].req.criticalRecruitment
       /\ ~Expired(outstandingStorageRequests[i].deadline, now)
       /\ getStorageWorker(outstandingStorageRequests[i].req) # 0

====
